---- MODULE Spec2Model ----
(***************************************************************************)
(* Verification model of the orbit-geometry core of orbel:                 *)
(*   orbel_app/core/orbit_math.py      Kepler solver, anomaly conversions  *)
(*   orbel_app/plotting/models.py      OrbitParameters, MassParameters,    *)
(*                                     OrbitModel                          *)
(*   orbel_app/plotting/animator.py    OrbitAnimator                       *)
(*   orbel_app/plotting/base_canvas.py OrbitCanvasBase (phase tracker)     *)
(*                                                                         *)
(* Number representation.  The program computes in IEEE doubles; the model *)
(* computes in fixed point on 32-bit integers:                             *)
(*   angles (i, w, Om, start_nu, nu, M, E, dM)  units of 1e-4 rad          *)
(*   lengths and masses (a, m1, m2)             units of 1e-9              *)
(*   eccentricity                               units of 1e-6              *)
(*   speed scale                                whole numbers              *)
(* Derived quantities are computed at a working precision of 1e-3 (for     *)
(* lengths, masses, mean motion) and 1e-4 (for e inside the Kepler         *)
(* transforms), rounding to nearest.                                       *)
(***************************************************************************)
EXTENDS Integers, Sequences, FiniteSets, TLC

VARIABLES
    orbit,        \* OrbitModel._orbit : the stored OrbitParameters
    mass,         \* OrbitModel._mass  : the stored MassParameters
    nu,           \* OrbitCanvasBase.nu : true anomaly
    M,            \* OrbitCanvasBase.M  : mean anomaly
    timerActive,  \* OrbitAnimator.timer.isActive()
    speedScale,   \* OrbitAnimator._speed_scale
    dM,           \* OrbitAnimator.dM
    ready,        \* OrbitCanvasBase.__init__ has run animator.recompute_mean_motion()
    ticks,        \* number of timer ticks delivered so far (bounded by MaxTicks)
    edits,        \* number of parameter, mass and speed edits so far (bounded by MaxEdits)
    last,         \* the operation that produced this state: its name, its arguments
                  \* and whether the timer was active when it was called
    calls,        \* host methods invoked by the last operation, in order
    listeners,    \* OrbitModel._listeners : topic -> callbacks in registration order
    receiver,     \* the object the last operation called with_updates on (if it did),
                  \* as it is after the call
    absolute,     \* the second canvas of a CanvasManager (absent for a canvas on its own)
    result,       \* what the last drawing or solver routine produced: the data it put
                  \* on the artists, or the value it returned
    window,       \* the widgets of the main window: the play control, the parameter
                  \* controls, the option controller and its adapter
    view          \* what a canvas shows: its visibility flags, its axes half-width and
                  \* its lock, and which of its artists are drawn

vars == <<orbit, mass, nu, M, timerActive, speedScale, dM, ready, ticks, edits, last, calls,
          listeners, receiver, absolute, result, window, view>>

-----------------------------------------------------------------------------
(* Fixed-point helpers *)

S == 10^4                 \* one radian, and the unit of the working fractions
Milli == 10^6             \* 1e-9 units per 1e-3 unit
One == 10^9               \* the real number 1.0 in the units of a, m1, m2
EOne == 10^6              \* the real number 1.0 in the units of e

Pi == 31416
TwoPi == 2 * Pi
HalfPi == Pi \div 2

Abs(x) == IF x < 0 THEN -x ELSE x
Max(x, y) == IF x >= y THEN x ELSE y
Min(x, y) == IF x <= y THEN x ELSE y

\* a / b rounded to nearest (b > 0)
DivR(a, b) == (2 * a + b) \div (2 * b)
\* product of two fractions of scale S
MulR(a, b) == DivR(a * b, S)

\* np.deg2rad
Deg(d) == DivR(d * Pi, 180)

\* the representative of x in [-Pi, Pi)
Wrap(x) == ((x + Pi) % TwoPi) - Pi

\* distance between two angles up to whole revolutions
AngDist(x, y) == Abs(Wrap(x - y))

\* sin on [0, Pi/2] : Taylor polynomial to x^9 in Horner form
SinQ(x) ==
    LET x2 == MulR(x, x)
        t4 == S - DivR(x2, 72)
        t3 == S - DivR(MulR(x2, t4), 42)
        t2 == S - DivR(MulR(x2, t3), 20)
        t1 == S - DivR(MulR(x2, t2), 6)
    IN  MulR(x, t1)

\* sin on the quarter period, tabulated once
SinTab == [y \in 0..HalfPi |-> SinQ(y)]

SinH(y) == IF y <= HalfPi THEN SinTab[y] ELSE SinTab[Pi - y]

\* np.sin, np.cos for any argument
Sin(x) == LET y == Wrap(x) IN IF y >= 0 THEN SinH(y) ELSE -SinH(-y)
Cos(x) == Sin(x + HalfPi)

\* integer square root
RECURSIVE ISqrtIter(_, _)
ISqrtIter(n, x) ==
    LET y == (x + n \div x) \div 2
    IN  IF y >= x THEN x ELSE ISqrtIter(n, y)
ISqrt(n) == IF n < 2 THEN n ELSE ISqrtIter(n, n)

\* np.sqrt of a fraction k/S in [0, 2], as a fraction of scale S, tabulated once
SqrtTab == [k \in 0..(2 * S) |-> ISqrt(k * S)]
Sqrt(k) == SqrtTab[k]

\* arctan(2^-k) in units of 1e-6 rad
CordicAngles == <<785398, 463648, 244979, 124355, 62419, 31240, 15624, 7812, 3906,
                  1953, 977, 488, 244, 122, 61, 31, 15, 8, 4, 2>>

Shr(v, k) == IF v >= 0 THEN v \div 2^k ELSE -((-v) \div 2^k)

\* CORDIC vectoring: the angle of (x, y), x >= 0, in units of 1e-6 rad
RECURSIVE Cordic(_, _, _, _)
Cordic(x, y, z, k) ==
    IF k >= Len(CordicAngles) \/ y = 0 THEN z
    ELSE IF y > 0
         THEN Cordic(x + Shr(y, k), y - Shr(x, k), z + CordicAngles[k + 1], k + 1)
         ELSE Cordic(x - Shr(y, k), y + Shr(x, k), z - CordicAngles[k + 1], k + 1)

\* arctan(t/S) for 0 <= t <= S, tabulated once
AtanTab == [t \in 0..S |-> DivR(Cordic(S * S, t * S, 0, 0), 100)]

\* the angle of (x, y) in the first quadrant, x, y >= 0 and not both 0
AtanPos(y, x) ==
    LET r == IF Max(x, y) >= 200000 THEN 1000 ELSE 1
        ys == y \div r
        xs == x \div r
    IN  IF ys <= xs THEN AtanTab[DivR(ys * S, xs)]
        ELSE HalfPi - AtanTab[DivR(xs * S, ys)]

\* np.arctan2(y, x), result in [-Pi, Pi]
Atan2(y, x) ==
    IF x = 0 /\ y = 0 THEN 0
    ELSE LET a == AtanPos(Abs(y), Abs(x))
         IN  IF x >= 0 THEN (IF y >= 0 THEN a ELSE -a)
             ELSE (IF y >= 0 THEN Pi - a ELSE a - Pi)

-----------------------------------------------------------------------------
(* orbel_app/core/orbit_math.py *)

\* e at the working precision of the Kepler transforms
E4(e) == e \div 100

KeplerTol == 3       \* tol, in units of 1e-4 rad
KeplerMaxIter == 40  \* n_iter

\* the Newton loop of solve_kepler; k counts the iterations still allowed, steps
\* holds the update steps dE taken so far
RECURSIVE KeplerIter(_, _, _, _, _)
KeplerIter(E, Mm, e, k, steps) ==
    IF k = 0 THEN [E |-> E, iters |-> Len(steps), steps |-> steps]
    ELSE LET f == E - MulR(E4(e), Sin(E)) - Mm
             fp == S - MulR(E4(e), Cos(E))
             dE == DivR(f * S, fp)
             E2 == E - dE
         IN  IF Abs(dE) < KeplerTol
             THEN [E |-> E2, iters |-> Len(steps) + 1, steps |-> Append(steps, dE)]
             ELSE KeplerIter(E2, Mm, e, k - 1, Append(steps, dE))

\* a solver that returns after one iteration whatever the size of its step
SolveKeplerOneStep(Mm, e) == KeplerIter(Mm + MulR(E4(e), Sin(Mm)), Mm, e, 1, <<>>)

solve_kepler_run(Mm, e) ==
    KeplerIter(Mm + MulR(E4(e), Sin(Mm)), Mm, e, KeplerMaxIter, <<>>)

solve_kepler(Mm, e) == solve_kepler_run(Mm, e).E

E_from_nu(v, e) ==
    2 * Atan2(Sqrt(S - E4(e)) * Sin(v \div 2),
              Sqrt(S + E4(e)) * Cos(v \div 2))

\* a mean anomaly that leaves out the term e sin E
MFromECircular(E, e) == E

M_from_E(E, e) == E - MulR(E4(e), Sin(E))

nu_from_E(E, e) ==
    2 * Atan2(Sqrt(S + E4(e)) * Sin(E \div 2),
              Sqrt(S - E4(e)) * Cos(E \div 2))

-----------------------------------------------------------------------------
(* orbel_app/plotting/models.py *)

EPS == 1          \* _EPS = 1e-9, in units of 1e-9
EMax == 999999    \* 0.999999, in units of 1e-6

OrbitFields == {"a", "e", "i", "w", "Om", "start_nu"}
MassFields == {"m1", "m2"}

\* an ensure_valid that floors a but lets e through unclamped
OrbitEnsureValidNoEClamp(p) ==
    [a |-> Max(p.a, EPS), e |-> p.e, i |-> p.i, w |-> p.w, Om |-> p.Om,
     start_nu |-> p.start_nu]

\* OrbitParameters.ensure_valid
OrbitEnsureValid(p) ==
    [a |-> Max(p.a, EPS),
     e |-> Min(Max(p.e, 0), EMax),
     i |-> p.i,
     w |-> p.w,
     Om |-> p.Om,
     start_nu |-> p.start_nu]

\* dataclasses.replace(p, **kwargs); kwargs is a function from field names to values
Replace(p, kwargs) ==
    [k \in DOMAIN p |-> IF k \in DOMAIN kwargs THEN kwargs[k] ELSE p[k]]

\* a with_updates that assigns the fields on the receiver before validating a copy
WithUpdatesInPlace(p, kwargs) == Replace(p, kwargs)

\* with_updates : the receiver after the call; dataclasses.replace builds a new
\* instance and assigns nothing on the receiver
WithUpdatesReceiver(p, kwargs) == p

\* OrbitParameters.with_updates
OrbitWithUpdates(p, kwargs) == OrbitEnsureValid(Replace(p, kwargs))

\* an ensure_valid that floors the masses at 0 instead of _EPS
MassEnsureValidFloorZero(m) == [m1 |-> Max(m.m1, 0), m2 |-> Max(m.m2, 0)]

\* MassParameters.ensure_valid
MassEnsureValid(m) == [m1 |-> Max(m.m1, EPS), m2 |-> Max(m.m2, EPS)]

\* MassParameters.with_updates
MassWithUpdates(m, kwargs) == MassEnsureValid(Replace(m, kwargs))

\* a length or mass at the working precision 1e-3
ToMilli(x) == x \div Milli

\* MassParameters.total_mass, in units of 1e-3
TotalMass(m) == Max(ToMilli(m.m1) + ToMilli(m.m2), ToMilli(EPS))

\* MassParameters.mean_motion : sqrt(total / semi^3), in units of 1e-3 rad/s.
\* Defined for semi-major axes of at least 1e-3.
MeanMotion(m, semi_major) ==
    LET semi == ToMilli(Max(semi_major, EPS))
        q1 == DivR(TotalMass(m) * 1000, semi)
        q2 == DivR(q1 * 1000, semi)
        q3 == DivR(q2 * 1000, semi)
    IN  ISqrt(q3 * 1000)

\* OrbitModel.set_orbit : the value stored
SetOrbitValue(params) == OrbitEnsureValid(params)

\* OrbitModel.update_orbit : the value stored
UpdateOrbitValue(cur, kwargs) == SetOrbitValue(OrbitWithUpdates(cur, kwargs))

\* OrbitModel.set_masses : the value stored
SetMassesValue(masses) == MassEnsureValid(masses)

\* OrbitModel.update_masses : the value stored
UpdateMassesValue(cur, kwargs) == SetMassesValue(MassWithUpdates(cur, kwargs))

-----------------------------------------------------------------------------
(* orbel_app/plotting/animator.py *)

IntervalMs == 15  \* interval_ms, the period of the QTimer

\* OrbitAnimator.__init__ : self.dM = 0.020, in 1e-4 rad
InitialDM == 200

\* a start() that toggles the timer instead of testing isActive()
StartToggles(active) == ~active

\* OrbitAnimator.start : timer.isActive() afterwards
TimerAfterStart(active) == IF ~active THEN TRUE ELSE active

\* OrbitAnimator.stop : timer.isActive() afterwards
TimerAfterStop(active) == IF active THEN FALSE ELSE active

\* a set_speed_scale that stores the scale without the max(., 0.0)
SpeedScaleUnclamped(scale) == scale

\* OrbitAnimator.set_speed_scale : the multiplier stored
SpeedScaleValue(scale) == Max(scale, 0)

\* a recompute_mean_motion that leaves the speed scale out of the product
RecomputeMeanMotionUnscaled(scale, m, a) ==
    DivR(MeanMotion(m, a) * Max(IntervalMs, 1), 100)

\* OrbitAnimator.recompute_mean_motion : the new dM, in units of 1e-4 rad
RecomputeMeanMotion(scale, m, a) ==
    LET dt == Max(IntervalMs, 1)
        mean_motion == MeanMotion(m, a)
    IN  DivR(mean_motion * dt * scale, 100)

\* OrbitAnimator._step : the host methods it calls, in order
StepCalls == <<"M+=", "_recompute_from_M", "_update_body_only", "_redraw">>

-----------------------------------------------------------------------------
(* orbel_app/plotting/base_canvas.py *)

\* a _dir_sign that counts exactly 90 degrees as prograde
DirSignInclusive(i) == IF i <= HalfPi THEN 1 ELSE -1

\* OrbitCanvasBase._dir_sign
DirSign(i) == IF i < HalfPi THEN 1 ELSE -1

\* a _recompute_from_M that takes M for the eccentric anomaly (no Kepler solve)
RecomputeFromMUnsolved(Mm, e) == nu_from_E(Mm, e)

\* OrbitCanvasBase._recompute_from_M : the new nu
RecomputeFromM(Mm, e) == nu_from_E(solve_kepler(Mm, e), e)

\* OrbitCanvasBase._set_nu_keep_phase : the new (nu, M)
SetNuKeepPhase(nu_new, e) ==
    [nu |-> nu_new, M |-> M_from_E(E_from_nu(nu_new, e), e)]

\* OrbitAnimator._step : the mean anomaly after the increment
StepM(Mm, i, d) == Mm + DirSign(i) * d

\* an apply_parameters that reseeds from start_nu whatever keep_phase says
TargetNuReseeds(current_nu, params, keep_phase) == params.start_nu

\* OrbitCanvasBase.apply_parameters : the true anomaly handed to _set_nu_keep_phase
TargetNu(current_nu, params, keep_phase) ==
    IF keep_phase THEN current_nu ELSE params.start_nu

\* OrbitCanvasBase.__init__ : self.init
InitOrbit ==
    [a |-> One, e |-> EOne \div 2, i |-> Deg(45), w |-> Deg(90), Om |-> Deg(90),
     start_nu |-> Deg(45)]
InitMass == [m1 |-> 16 * (One \div 10), m2 |-> 8 * (One \div 10)]

-----------------------------------------------------------------------------
(* Bounds and inputs of the canvas specification *)

MaxTicks == 2   \* timer ticks delivered in one behaviour
MaxEdits == 2   \* parameter, mass and speed edits in one behaviour

\* values offered to the a, e, i, w, Om, start_nu, m1, m2 controls
AInputs == {One \div 2}
EInputs == {-(EOne \div 5), 9 * (EOne \div 10)}
IInputs == {Deg(90), Deg(135)}
WInputs == {Deg(300)}
OmInputs == {Deg(25)}
NuInputs == {Deg(400)}
M1Inputs == {8 * (One \div 10)}
M2Inputs == {16 * (One \div 10)}
ScaleInputs == {-1, 40}

\* parameter sets handed to apply_parameters as a whole
ParamInputs ==
    {[a |-> One \div 2, e |-> 9 * (EOne \div 10), i |-> Deg(90), w |-> Deg(90),
      Om |-> Deg(90), start_nu |-> Deg(45)]}
MassInputs == {[m1 |-> 16 * (One \div 10), m2 |-> 8 * (One \div 10)]}

NoArg == [v |-> 0]

\* OrbitModel.__init__ : no callback is registered yet
NoListeners == [orbit |-> <<>>, mass |-> <<>>]

\* OrbitCanvasBase.__init__ : the two callbacks the canvas subscribes
CanvasListeners ==
    [orbit |-> <<"_on_orbit_model_changed">>, mass |-> <<"_on_mass_model_changed">>]

\* no second canvas
NoCanvas == [v |-> 0]

\* no main window around the canvas
NoWindow == [v |-> 0]

\* a canvas whose artists are not followed
NoView == [v |-> 0]

-----------------------------------------------------------------------------
(* The canvas: OrbitCanvasBase with its OrbitModel and OrbitAnimator *)

\* OrbitCanvasBase.__init__ (lines 120-138), after OrbitAnimator.__init__
Init ==
    /\ orbit = OrbitEnsureValid(InitOrbit)
    /\ mass = MassEnsureValid(InitMass)
    /\ nu = InitOrbit.start_nu
    /\ M = M_from_E(E_from_nu(InitOrbit.start_nu, orbit.e), orbit.e)
    /\ timerActive = FALSE
    /\ speedScale = 1
    /\ dM = InitialDM
    /\ ready = FALSE
    /\ ticks = 0
    /\ edits = 0
    /\ last = [op |-> "OrbitAnimator", keep |-> FALSE, arg |-> NoArg, was |-> FALSE]
    /\ calls = <<>>
    /\ listeners = CanvasListeners
    /\ receiver = NoArg
    /\ absolute = NoCanvas
    /\ result = NoArg
    /\ window = NoWindow
    /\ view = NoView

\* OrbitCanvasBase.__init__ : animator.recompute_mean_motion() right after the
\* animator is created; the canvas accepts calls only once its constructor is done
FinishInit ==
    /\ ~ready
    /\ ready' = TRUE
    /\ dM' = RecomputeMeanMotion(speedScale, mass, orbit.a)
    /\ last' = [op |-> "init", keep |-> FALSE, arg |-> NoArg, was |-> timerActive]
    /\ calls' = <<"recompute_mean_motion">>
    /\ UNCHANGED <<orbit, mass, nu, M, timerActive, speedScale, ticks, edits>>
    /\ UNCHANGED <<listeners, receiver, absolute, result, window, view>>

\* OrbitCanvasBase.apply_parameters(params, keep_phase), reached as `op`
DoApplyParameters(p, keep_phase, op, arg) ==
    LET params == OrbitEnsureValid(p)
        current_nu == nu
        stored == SetOrbitValue(params)
        ph == SetNuKeepPhase(TargetNu(current_nu, params, keep_phase), stored.e)
    IN  /\ ready
        /\ edits < MaxEdits
        /\ edits' = edits + 1
        /\ orbit' = stored
        /\ dM' = RecomputeMeanMotion(speedScale, mass, stored.a)
        /\ nu' = ph.nu
        /\ M' = ph.M
        /\ last' = [op |-> op, keep |-> keep_phase, arg |-> arg, was |-> timerActive]
        /\ calls' = <<"set_orbit", "recompute_mean_motion", "_set_nu_keep_phase",
                      "_update_axes_limits", "update_all">>
        /\ UNCHANGED <<mass, timerActive, speedScale, ready, ticks>>
        /\ UNCHANGED <<listeners, receiver, absolute, result, window, view>>

\* a mass edit that pauses the animation while it is applied
DoSetMassesPausing(stored, op, arg, tail) ==
    /\ ready
    /\ edits < MaxEdits
    /\ edits' = edits + 1
    /\ mass' = stored
    /\ dM' = RecomputeMeanMotion(speedScale, stored, orbit.a)
    /\ timerActive' = FALSE
    /\ last' = [op |-> op, keep |-> FALSE, arg |-> arg, was |-> timerActive]
    /\ calls' = <<"set_masses", "recompute_mean_motion">> \o tail
    /\ UNCHANGED <<orbit, nu, M, speedScale, ready, ticks>>
    /\ UNCHANGED <<listeners, receiver, absolute, result, window, view>>

\* OrbitModel.set_masses / update_masses as reached from the canvas, as `op`
DoSetMasses(stored, op, arg, tail) ==
    /\ ready
    /\ edits < MaxEdits
    /\ edits' = edits + 1
    /\ mass' = stored
    /\ dM' = RecomputeMeanMotion(speedScale, stored, orbit.a)
    /\ last' = [op |-> op, keep |-> FALSE, arg |-> arg, was |-> timerActive]
    /\ calls' = <<"set_masses", "recompute_mean_motion">> \o tail
    /\ UNCHANGED <<orbit, nu, M, timerActive, speedScale, ready, ticks>>
    /\ UNCHANGED <<listeners, receiver, absolute, result, window, view>>

ApplyParameters ==
    \E p \in ParamInputs, keep_phase \in BOOLEAN :
        DoApplyParameters(p, keep_phase, "apply_parameters", p)

\* the property setters a, e, i, w, Om (keep_phase=True) and start_nu (False)
SetA ==
    \E v \in AInputs :
        DoApplyParameters(OrbitWithUpdates(orbit, [k \in {"a"} |-> v]), TRUE, "a", [v |-> v])
SetE ==
    \E v \in EInputs :
        DoApplyParameters(OrbitWithUpdates(orbit, [k \in {"e"} |-> v]), TRUE, "e", [v |-> v])
SetI ==
    \E v \in IInputs :
        DoApplyParameters(OrbitWithUpdates(orbit, [k \in {"i"} |-> v]), TRUE, "i", [v |-> v])
SetW ==
    \E v \in WInputs :
        DoApplyParameters(OrbitWithUpdates(orbit, [k \in {"w"} |-> v]), TRUE, "w", [v |-> v])
SetOm ==
    \E v \in OmInputs :
        DoApplyParameters(OrbitWithUpdates(orbit, [k \in {"Om"} |-> v]), TRUE, "Om", [v |-> v])
SetStartNu ==
    \E v \in NuInputs :
        DoApplyParameters(OrbitWithUpdates(orbit, [k \in {"start_nu"} |-> v]), FALSE,
                          "start_nu", [v |-> v])

\* OrbitCanvasBase.apply_masses
ApplyMasses ==
    \E m \in MassInputs :
        DoSetMasses(SetMassesValue(m), "apply_masses", m, <<"update_all">>)

\* the property setters m1, m2
SetM1 ==
    \E v \in M1Inputs :
        DoSetMasses(UpdateMassesValue(mass, [k \in {"m1"} |-> v]), "m1", [v |-> v], <<>>)
SetM2 ==
    \E v \in M2Inputs :
        DoSetMasses(UpdateMassesValue(mass, [k \in {"m2"} |-> v]), "m2", [v |-> v], <<>>)

\* OrbitAnimator.start
Start ==
    /\ ready
    /\ timerActive' = TimerAfterStart(timerActive)
    /\ last' = [op |-> "start", keep |-> FALSE, arg |-> NoArg, was |-> timerActive]
    /\ calls' = <<>>
    /\ UNCHANGED <<orbit, mass, nu, M, speedScale, dM, ready, ticks, edits>>
    /\ UNCHANGED <<listeners, receiver, absolute, result, window, view>>

\* OrbitAnimator.stop
Stop ==
    /\ ready
    /\ timerActive' = TimerAfterStop(timerActive)
    /\ last' = [op |-> "stop", keep |-> FALSE, arg |-> NoArg, was |-> timerActive]
    /\ calls' = <<>>
    /\ UNCHANGED <<orbit, mass, nu, M, speedScale, dM, ready, ticks, edits>>
    /\ UNCHANGED <<listeners, receiver, absolute, result, window, view>>

\* OrbitAnimator.set_speed_scale
SetSpeedScale ==
    \E scale \in ScaleInputs :
        /\ ready
        /\ edits < MaxEdits
        /\ edits' = edits + 1
        /\ speedScale' = SpeedScaleValue(scale)
        /\ dM' = RecomputeMeanMotion(speedScale', mass, orbit.a)
        /\ last' = [op |-> "set_speed_scale", keep |-> FALSE, arg |-> [v |-> scale],
                    was |-> timerActive]
        /\ calls' = <<"recompute_mean_motion">>
        /\ UNCHANGED <<orbit, mass, nu, M, timerActive, ready, ticks>>
        /\ UNCHANGED <<listeners, receiver, absolute, result, window, view>>

\* a timer that keeps firing after stop()
TickWhileStopped ==
    /\ ready
    /\ ticks < MaxTicks
    /\ M' = StepM(M, orbit.i, dM)
    /\ nu' = RecomputeFromM(M', orbit.e)
    /\ ticks' = ticks + 1
    /\ last' = [op |-> "tick", keep |-> FALSE, arg |-> NoArg, was |-> timerActive]
    /\ calls' = StepCalls
    /\ UNCHANGED <<orbit, mass, timerActive, speedScale, dM, ready, edits>>
    /\ UNCHANGED <<listeners, receiver, absolute, result, window, view>>

\* QTimer.timeout -> OrbitAnimator._step ; the timer fires only while active
Tick ==
    /\ ready
    /\ timerActive
    /\ ticks < MaxTicks
    /\ M' = StepM(M, orbit.i, dM)
    /\ nu' = RecomputeFromM(M', orbit.e)
    /\ ticks' = ticks + 1
    /\ last' = [op |-> "tick", keep |-> FALSE, arg |-> NoArg, was |-> timerActive]
    /\ calls' = StepCalls
    /\ UNCHANGED <<orbit, mass, timerActive, speedScale, dM, ready, edits>>
    /\ UNCHANGED <<listeners, receiver, absolute, result, window, view>>

Next ==
    \/ FinishInit
    \/ ApplyParameters
    \/ SetA
    \/ SetE
    \/ SetI
    \/ SetW
    \/ SetOm
    \/ SetStartNu
    \/ ApplyMasses
    \/ SetM1
    \/ SetM2
    \/ Start
    \/ Stop
    \/ SetSpeedScale
    \/ Tick

Spec == Init /\ [][Next]_vars

-----------------------------------------------------------------------------
(* OrbitModel on its own, driven with arbitrary numbers *)

RawA == {-2 * One, 0, One \div 2}
RawE == {-(EOne \div 5), EOne \div 2, EOne, 3 * (EOne \div 2)}
RawAngle == {Deg(-30), Deg(400)}
RawM == {-One, 0, 2 * One}

RawOrbits ==
    [a : RawA, e : RawE, i : RawAngle, w : {Deg(400)}, Om : {Deg(-30)},
     start_nu : RawAngle]
RawMasses == [m1 : RawM, m2 : RawM]

\* keyword arguments of update_orbit and update_masses
Kw(field, v) == [k \in {field} |-> v]
Kw2(f1, v1, f2, v2) == [k \in {f1, f2} |-> IF k = f1 THEN v1 ELSE v2]
OrbitKwargs ==
    {Kw("a", v) : v \in RawA} \cup {Kw("e", v) : v \in RawE}
    \cup {Kw(f, v) : f \in {"i", "w", "Om", "start_nu"}, v \in RawAngle}
    \cup {Kw2("a", x, "e", y) : x \in RawA, y \in RawE}
MassKwargs ==
    {Kw("m1", v) : v \in RawM} \cup {Kw("m2", v) : v \in RawM}
    \cup {Kw2("m1", x, "m2", y) : x \in RawM, y \in RawM}

\* a _notify that runs the callbacks of both topics
NotifyEveryTopic(topic, value) ==
    [k \in 1..Len(listeners.orbit \o listeners.mass) |->
        [cb |-> (listeners.orbit \o listeners.mass)[k], value |-> value]]

\* a _notify that runs the callbacks of the topic last registered first
NotifyNewestFirst(topic, value) ==
    [k \in 1..Len(listeners[topic]) |->
        [cb |-> listeners[topic][Len(listeners[topic]) + 1 - k], value |-> value]]

\* OrbitModel._notify(topic) with `value` stored: the callbacks invoked, in order,
\* each with the value it is handed
Notify(topic, value) ==
    [k \in 1..Len(listeners[topic]) |-> [cb |-> listeners[topic][k], value |-> value]]

\* OrbitModel.__init__(orbit, masses); no canvas and no animator is attached
OrbitModelInit(p, m) ==
    /\ orbit = OrbitEnsureValid(p)
    /\ mass = MassEnsureValid(m)
    /\ last = [op |-> "OrbitModel", keep |-> FALSE, arg |-> [orbit |-> p, mass |-> m],
               was |-> FALSE]
    /\ nu = 0
    /\ M = 0
    /\ timerActive = FALSE
    /\ speedScale = 1
    /\ dM = 0
    /\ ready = FALSE
    /\ ticks = 0
    /\ edits = 0
    /\ calls = <<>>
    /\ listeners = NoListeners
    /\ receiver = NoArg
    /\ absolute = NoCanvas
    /\ result = NoArg
    /\ window = NoWindow
    /\ view = NoView

\* OrbitModel.set_orbit(params)
OrbitModelSetOrbit(p) ==
    /\ orbit' = SetOrbitValue(p)
    /\ last' = [op |-> "set_orbit", keep |-> FALSE, arg |-> p, was |-> FALSE]
    /\ receiver' = NoArg
    /\ calls' = Notify("orbit", orbit')
    /\ UNCHANGED <<mass, nu, M, timerActive, speedScale, dM, ready, ticks, edits>>
    /\ UNCHANGED <<listeners, absolute, result, window, view>>

\* OrbitModel.update_orbit(**kwargs)
OrbitModelUpdateOrbit(kwargs) ==
    /\ orbit' = UpdateOrbitValue(orbit, kwargs)
    /\ receiver' = WithUpdatesReceiver(orbit, kwargs)
    /\ last' = [op |-> "update_orbit", keep |-> FALSE, arg |-> kwargs, was |-> FALSE]
    /\ calls' = Notify("orbit", orbit')
    /\ UNCHANGED <<mass, nu, M, timerActive, speedScale, dM, ready, ticks, edits>>
    /\ UNCHANGED <<listeners, absolute, result, window, view>>

\* OrbitModel.set_masses(masses)
OrbitModelSetMasses(m) ==
    /\ mass' = SetMassesValue(m)
    /\ last' = [op |-> "set_masses", keep |-> FALSE, arg |-> m, was |-> FALSE]
    /\ receiver' = NoArg
    /\ calls' = Notify("mass", mass')
    /\ UNCHANGED <<orbit, nu, M, timerActive, speedScale, dM, ready, ticks, edits>>
    /\ UNCHANGED <<listeners, absolute, result, window, view>>

\* OrbitModel.update_masses(**kwargs)
OrbitModelUpdateMasses(kwargs) ==
    /\ mass' = UpdateMassesValue(mass, kwargs)
    /\ receiver' = WithUpdatesReceiver(mass, kwargs)
    /\ last' = [op |-> "update_masses", keep |-> FALSE, arg |-> kwargs, was |-> FALSE]
    /\ calls' = Notify("mass", mass')
    /\ UNCHANGED <<orbit, nu, M, timerActive, speedScale, dM, ready, ticks, edits>>
    /\ UNCHANGED <<listeners, absolute, result, window, view>>

InitModel == \E p \in RawOrbits, m \in RawMasses : OrbitModelInit(p, m)

ModelSetOrbit == \E p \in RawOrbits : OrbitModelSetOrbit(p)

ModelUpdateOrbit == \E kwargs \in OrbitKwargs : OrbitModelUpdateOrbit(kwargs)

ModelSetMasses == \E m \in RawMasses : OrbitModelSetMasses(m)

ModelUpdateMasses == \E kwargs \in MassKwargs : OrbitModelUpdateMasses(kwargs)

NextModel ==
    \/ ModelSetOrbit
    \/ ModelUpdateOrbit
    \/ ModelSetMasses
    \/ ModelUpdateMasses

SpecModel == InitModel /\ [][NextModel]_vars

-----------------------------------------------------------------------------
(* OrbitModel with subscribers *)

MaxSubs == 3     \* subscriptions made in one run

Callbacks == {"f", "g"}
Topics == {"orbit", "mass"}

NotifyOrbits ==
    {p \in RawOrbits : p.a # 0 /\ p.e \in {EOne \div 2, 3 * (EOne \div 2)}
                       /\ p.i = Deg(400) /\ p.start_nu = Deg(-30)}
NotifyOrbitKwargs == {Kw("e", EOne), Kw("w", Deg(-30))}
NotifyMasses == {m \in RawMasses : m.m1 # 0 /\ m.m2 = 2 * One}
NotifyMassKwargs == {Kw("m2", -One), Kw("m1", 2 * One)}

InitNotify == OrbitModelInit(InitOrbit, InitMass)

\* OrbitModel.subscribe(topic, callback)
Subscribe ==
    \E topic \in Topics, cb \in Callbacks :
        /\ Len(listeners.orbit) + Len(listeners.mass) < MaxSubs
        /\ listeners' = [listeners EXCEPT ![topic] = Append(@, cb)]
        /\ last' = [op |-> "subscribe", keep |-> FALSE,
                    arg |-> [topic |-> topic, cb |-> cb], was |-> FALSE]
        /\ receiver' = NoArg
        /\ calls' = <<>>
        /\ UNCHANGED <<orbit, mass, nu, M, timerActive, speedScale, dM, ready, ticks, edits>>
        /\ UNCHANGED <<absolute, result, window, view>>

NotifySetOrbit == \E p \in NotifyOrbits : OrbitModelSetOrbit(p)

NotifyUpdateOrbit == \E kwargs \in NotifyOrbitKwargs : OrbitModelUpdateOrbit(kwargs)

NotifySetMasses == \E m \in NotifyMasses : OrbitModelSetMasses(m)

NotifyUpdateMasses == \E kwargs \in NotifyMassKwargs : OrbitModelUpdateMasses(kwargs)

NextNotify ==
    \/ Subscribe
    \/ NotifySetOrbit
    \/ NotifyUpdateOrbit
    \/ NotifySetMasses
    \/ NotifyUpdateMasses

SpecNotify == InitNotify /\ [][NextNotify]_vars

-----------------------------------------------------------------------------
(* Node markers, the omega arc and the barycentric split *)
(* orbel_app/plotting/relative_canvas.py, absolute_canvas.py, base_canvas.py *)

\* node anomalies with the ascending node at +w instead of -w
NodeAnomaliesMirrored(w) ==
    LET w_eff == w % TwoPi
    IN  [asc |-> w_eff % TwoPi, des |-> (Pi + w_eff) % TwoPi]

\* _update_periastron : w_eff, f_asc, f_des
NodeAnomalies(w) ==
    LET w_eff == w % TwoPi
    IN  [asc |-> (-w_eff) % TwoPi, des |-> (Pi - w_eff) % TwoPi]

\* OrbitCanvasBase._omega_arc_points(w) : the first and the last of the 200
\* anomalies of the arc (th = 0 and th = w)
OmegaArcPoints(w, i) ==
    LET dir_sign == IF i < HalfPi THEN 1 ELSE -1
        f_asc == IF dir_sign > 0 THEN (-w) % TwoPi ELSE w % TwoPi
    IN  [first |-> (f_asc + dir_sign * 0) % TwoPi,
         end |-> (f_asc + dir_sign * w) % TwoPi]

\* barycentric factors are kept in units of 1e-4
\* MassParameters.barycentric_factors
BarycentricFactors(m) ==
    LET total == TotalMass(m)
    IN  [c1 |-> -DivR(ToMilli(m.m2) * S, total), c2 |-> DivR(ToMilli(m.m1) * S, total)]

\* a split that divides by the heavier mass instead of the total
SplitAbsoluteByHeavier(m) ==
    LET heavier == Max(ToMilli(m.m1), ToMilli(m.m2))
    IN  [c1 |-> -DivR(ToMilli(m.m2) * S, heavier), c2 |-> DivR(ToMilli(m.m1) * S, heavier)]

\* AbsoluteCanvas._split_absolute : c1, c2
SplitAbsolute(m) ==
    LET m1 == ToMilli(m.m1)
        m2 == ToMilli(m.m2)
    IN  [c1 |-> -DivR(m2 * S, m1 + m2), c2 |-> DivR(m1 * S, m1 + m2)]

\* a choice that prefers body 2 when the factors tie
UseBody1Strict(c) == Abs(c.c1) > Abs(c.c2)

\* AbsoluteCanvas._update_periastron : use_1
UseBody1(c) == Abs(c.c1) >= Abs(c.c2)

\* values of w, i and the masses a canvas is drawn with
DrawW == {Deg(-30), 0, Deg(45), Deg(90), Deg(180), Deg(300), Deg(400)}
DrawI == {0, Deg(45), Deg(90), Deg(135), Deg(180)}
DrawM == {One \div 2, One, 2 * One}

\* a constructed canvas, stopped, holding some orbit and some masses
InitDraw ==
    \E w \in DrawW, i \in DrawI, m1 \in DrawM, m2 \in DrawM :
        /\ orbit = OrbitEnsureValid([InitOrbit EXCEPT !.w = w, !.i = i])
        /\ mass = MassEnsureValid([m1 |-> m1, m2 |-> m2])
        /\ nu = InitOrbit.start_nu
        /\ M = M_from_E(E_from_nu(InitOrbit.start_nu, orbit.e), orbit.e)
        /\ timerActive = FALSE
        /\ speedScale = 1
        /\ dM = RecomputeMeanMotion(speedScale, mass, orbit.a)
        /\ ready = TRUE
        /\ ticks = 0
        /\ edits = 0
        /\ last = [op |-> "init", keep |-> FALSE, arg |-> NoArg, was |-> FALSE]
        /\ calls = <<>>
        /\ listeners = CanvasListeners
        /\ receiver = NoArg
        /\ absolute = NoCanvas
        /\ result = NoArg
        /\ window = NoWindow
        /\ view = NoView

\* what a drawing routine leaves alone
DrawFrame ==
    UNCHANGED <<orbit, mass, nu, M, timerActive, speedScale, dM, ready, ticks, edits,
                calls, listeners, receiver, absolute, window, view>>

\* RelativeCanvas._update_periastron : the anomalies of the two node markers
RelativeUpdatePeriastron ==
    /\ result' = NodeAnomalies(orbit.w)
    /\ last' = [op |-> "relative_update_periastron", keep |-> FALSE, arg |-> NoArg,
                was |-> timerActive]
    /\ DrawFrame

\* AbsoluteCanvas._update_periastron : the anomalies of the two node markers, the
\* body whose coordinates they take and the factor that multiplies the relative
\* position
AbsoluteUpdatePeriastron ==
    /\ LET n == NodeAnomalies(orbit.w)
           c == SplitAbsolute(mass)
           use_1 == UseBody1(c)
       IN  result' = [asc |-> n.asc, des |-> n.des,
                      body |-> IF use_1 THEN 1 ELSE 2,
                      c |-> IF use_1 THEN c.c1 ELSE c.c2]
    /\ last' = [op |-> "absolute_update_periastron", keep |-> FALSE, arg |-> NoArg,
                was |-> timerActive]
    /\ DrawFrame

\* RelativeCanvas._update_w_arc : the ends of the omega arc
UpdateWArc ==
    /\ result' = OmegaArcPoints(orbit.w % TwoPi, orbit.i)
    /\ last' = [op |-> "update_w_arc", keep |-> FALSE, arg |-> NoArg, was |-> timerActive]
    /\ DrawFrame

\* AbsoluteCanvas._update_orbit_curves : the factors of the two trajectories, next
\* to the factors MassParameters.barycentric_factors returns for the same masses
UpdateOrbitCurves ==
    /\ result' = [split |-> SplitAbsolute(mass), factors |-> BarycentricFactors(mass)]
    /\ last' = [op |-> "update_orbit_curves", keep |-> FALSE, arg |-> NoArg,
                was |-> timerActive]
    /\ DrawFrame

NextDraw ==
    \/ RelativeUpdatePeriastron
    \/ AbsoluteUpdatePeriastron
    \/ UpdateWArc
    \/ UpdateOrbitCurves

SpecDraw == InitDraw /\ [][NextDraw]_vars

-----------------------------------------------------------------------------
(* The Kepler transforms applied to a canvas's phase *)

\* eccentricities, mean anomalies and true anomalies the transforms are run on
KeplerE == {0, 3 * (EOne \div 10), EOne \div 2, 9 * (EOne \div 10), 95 * (EOne \div 100)}
KeplerM == {Deg(15 * k) : k \in 0..23} \cup {Deg(-30), Deg(400)}
KeplerNu == {Deg(-170), Deg(-90), Deg(-15), 0, Deg(45), Deg(120), Deg(170), Deg(400)}

\* a constructed canvas, stopped, holding some eccentricity and some phase
InitKepler ==
    \E e \in KeplerE, Mm \in KeplerM :
        /\ orbit = OrbitEnsureValid([InitOrbit EXCEPT !.e = e])
        /\ mass = MassEnsureValid(InitMass)
        /\ M = Mm
        /\ nu = RecomputeFromM(Mm, orbit.e)
        /\ timerActive = FALSE
        /\ speedScale = 1
        /\ dM = RecomputeMeanMotion(speedScale, mass, orbit.a)
        /\ ready = TRUE
        /\ ticks = 0
        /\ edits = 0
        /\ last = [op |-> "init", keep |-> FALSE, arg |-> NoArg, was |-> FALSE]
        /\ calls = <<>>
        /\ listeners = CanvasListeners
        /\ receiver = NoArg
        /\ absolute = NoCanvas
        /\ result = NoArg
        /\ window = NoWindow
        /\ view = NoView

\* what a transform leaves alone
KeplerFrame ==
    UNCHANGED <<orbit, mass, timerActive, speedScale, dM, ready, ticks, edits,
                calls, listeners, receiver, absolute, window, view>>

\* solve_kepler(M, e) on the canvas's M : the estimate, the number of iterations
\* and the steps
SolveKepler ==
    /\ result' = solve_kepler_run(M, orbit.e)
    /\ last' = [op |-> "solve_kepler", keep |-> FALSE, arg |-> [v |-> M], was |-> timerActive]
    /\ UNCHANGED <<nu, M>>
    /\ KeplerFrame

\* M_from_E(E, e) on the estimate solve_kepler has just returned
MFromE ==
    /\ last.op = "solve_kepler"
    /\ result' = [M |-> M_from_E(result.E, orbit.e)]
    /\ last' = [op |-> "M_from_E", keep |-> FALSE, arg |-> [v |-> result.E],
                was |-> timerActive]
    /\ UNCHANGED <<nu, M>>
    /\ KeplerFrame

\* OrbitCanvasBase._set_nu_keep_phase(nu_new)
CallSetNuKeepPhase ==
    \E nu_new \in KeplerNu :
        /\ nu' = SetNuKeepPhase(nu_new, orbit.e).nu
        /\ M' = SetNuKeepPhase(nu_new, orbit.e).M
        /\ result' = NoArg
        /\ last' = [op |-> "set_nu_keep_phase", keep |-> FALSE, arg |-> [v |-> nu_new],
                    was |-> timerActive]
        /\ KeplerFrame

\* OrbitCanvasBase._recompute_from_M(); the record of the operation keeps the nu
\* it replaced and the operation it follows
CallRecomputeFromM ==
    /\ nu' = RecomputeFromM(M, orbit.e)
    /\ result' = NoArg
    /\ last' = [op |-> "recompute_from_M", keep |-> FALSE,
                arg |-> [v |-> nu, after |-> last.op], was |-> timerActive]
    /\ UNCHANGED M
    /\ KeplerFrame

NextKepler ==
    \/ SolveKepler
    \/ MFromE
    \/ CallSetNuKeepPhase
    \/ CallRecomputeFromM

SpecKepler == InitKepler /\ [][NextKepler]_vars

-----------------------------------------------------------------------------
(* CanvasManager: a relative and an absolute canvas, each with its own        *)
(* OrbitModel and OrbitAnimator.  The relative canvas is held in the          *)
(* variables orbit, mass, nu, M, timerActive, speedScale, dM; the absolute    *)
(* canvas is the record `absolute` with the same fields.                      *)

\* OrbitCanvasBase.__init__ : a canvas once its constructor is done
NewCanvas ==
    LET o == OrbitEnsureValid(InitOrbit)
        m == MassEnsureValid(InitMass)
    IN  [orbit |-> o, mass |-> m, nu |-> InitOrbit.start_nu,
         M |-> M_from_E(E_from_nu(InitOrbit.start_nu, o.e), o.e),
         timerActive |-> FALSE, speedScale |-> 1,
         dM |-> RecomputeMeanMotion(1, m, o.a)]

\* the relative canvas, as a record
Relative ==
    [orbit |-> orbit, mass |-> mass, nu |-> nu, M |-> M, timerActive |-> timerActive,
     speedScale |-> speedScale, dM |-> dM]

\* the relative canvas becomes the record c
SetRelative(c) ==
    /\ orbit' = c.orbit
    /\ mass' = c.mass
    /\ nu' = c.nu
    /\ M' = c.M
    /\ timerActive' = c.timerActive
    /\ speedScale' = c.speedScale
    /\ dM' = c.dM

\* OrbitCanvasBase.apply_parameters(params, keep_phase) on the canvas c
CanvasApplyParameters(c, p, keep_phase) ==
    LET params == OrbitEnsureValid(p)
        current_nu == c.nu
        stored == SetOrbitValue(params)
        ph == SetNuKeepPhase(TargetNu(current_nu, params, keep_phase), stored.e)
    IN  [c EXCEPT !.orbit = stored,
                  !.dM = RecomputeMeanMotion(c.speedScale, c.mass, stored.a),
                  !.nu = ph.nu,
                  !.M = ph.M]

\* an apply_masses that goes back to the start of the orbit
CanvasApplyMassesReseeding(c, masses) ==
    LET stored == SetMassesValue(masses)
        ph == SetNuKeepPhase(c.orbit.start_nu, c.orbit.e)
    IN  [c EXCEPT !.mass = stored,
                  !.dM = RecomputeMeanMotion(c.speedScale, stored, c.orbit.a),
                  !.nu = ph.nu,
                  !.M = ph.M]

\* OrbitCanvasBase.apply_masses(masses) on the canvas c
CanvasApplyMasses(c, masses) ==
    LET stored == SetMassesValue(masses)
    IN  [c EXCEPT !.mass = stored,
                  !.dM = RecomputeMeanMotion(c.speedScale, stored, c.orbit.a)]

\* OrbitAnimator._step on the canvas c
CanvasStep(c) ==
    LET Mm == StepM(c.M, c.orbit.i, c.dM)
    IN  [c EXCEPT !.M = Mm, !.nu = RecomputeFromM(Mm, c.orbit.e)]

\* a manager that forwards to the relative canvas only
IterCanvasesRelativeOnly == <<"relative">>

\* CanvasManager.iter_canvases : the canvases in the order they are yielded
IterCanvases == <<"relative", "absolute">>

\* is the canvas `name` among the canvases the manager iterates over
Iterated(name) == \E k \in 1..Len(IterCanvases) : IterCanvases[k] = name

\* the calls a manager operation makes, one per canvas iterated over
ManagerCalls(op, keep_phase, arg) ==
    [k \in 1..Len(IterCanvases) |->
        [canvas |-> IterCanvases[k], op |-> op, keep |-> keep_phase, arg |-> arg]]

\* parameter sets and masses handed to the manager
ManagerParams ==
    {[a |-> One \div 2, e |-> 9 * (EOne \div 10), i |-> Deg(90), w |-> Deg(90),
      Om |-> Deg(90), start_nu |-> Deg(45)],
     [a |-> One, e |-> -(EOne \div 5), i |-> Deg(135), w |-> Deg(300),
      Om |-> Deg(25), start_nu |-> Deg(400)]}
ManagerMasses ==
    {[m1 |-> 16 * (One \div 10), m2 |-> 8 * (One \div 10)],
     [m1 |-> 8 * (One \div 10), m2 |-> -One]}

\* CanvasManager.__init__ : RelativeCanvas() and AbsoluteCanvas()
InitManager ==
    /\ orbit = NewCanvas.orbit
    /\ mass = NewCanvas.mass
    /\ nu = NewCanvas.nu
    /\ M = NewCanvas.M
    /\ timerActive = NewCanvas.timerActive
    /\ speedScale = NewCanvas.speedScale
    /\ dM = NewCanvas.dM
    /\ absolute = NewCanvas
    /\ ready = TRUE
    /\ ticks = 0
    /\ edits = 0
    /\ last = [op |-> "CanvasManager", keep |-> FALSE, arg |-> NoArg, was |-> FALSE]
    /\ calls = <<>>
    /\ listeners = CanvasListeners
    /\ receiver = NoArg
    /\ result = NoArg
    /\ window = NoWindow
    /\ view = NoView

\* CanvasManager.apply_parameters(params, keep_phase=keep_phase)
ManagerApplyParameters ==
    \E p \in ManagerParams, keep_phase \in BOOLEAN :
        /\ edits < MaxEdits
        /\ edits' = edits + 1
        /\ SetRelative(IF Iterated("relative")
                       THEN CanvasApplyParameters(Relative, p, keep_phase) ELSE Relative)
        /\ absolute' = (IF Iterated("absolute")
                        THEN CanvasApplyParameters(absolute, p, keep_phase) ELSE absolute)
        /\ last' = [op |-> "manager.apply_parameters", keep |-> keep_phase, arg |-> p,
                    was |-> timerActive]
        /\ calls' = ManagerCalls("apply_parameters", keep_phase, p)
        /\ UNCHANGED <<ready, ticks, listeners, receiver, result, window, view>>

\* CanvasManager.apply_masses(masses)
ManagerApplyMasses ==
    \E m \in ManagerMasses :
        /\ edits < MaxEdits
        /\ edits' = edits + 1
        /\ SetRelative(IF Iterated("relative")
                       THEN CanvasApplyMasses(Relative, m) ELSE Relative)
        /\ absolute' = (IF Iterated("absolute")
                        THEN CanvasApplyMasses(absolute, m) ELSE absolute)
        /\ last' = [op |-> "manager.apply_masses", keep |-> FALSE, arg |-> m,
                    was |-> timerActive]
        /\ calls' = ManagerCalls("apply_masses", FALSE, m)
        /\ UNCHANGED <<ready, ticks, listeners, receiver, result, window, view>>

\* CanvasManager.start()
ManagerStart ==
    /\ SetRelative(IF Iterated("relative")
                   THEN [Relative EXCEPT !.timerActive = TimerAfterStart(timerActive)]
                   ELSE Relative)
    /\ absolute' = (IF Iterated("absolute")
                    THEN [absolute EXCEPT !.timerActive = TimerAfterStart(@)]
                    ELSE absolute)
    /\ last' = [op |-> "manager.start", keep |-> FALSE, arg |-> NoArg, was |-> timerActive]
    /\ calls' = ManagerCalls("start", FALSE, NoArg)
    /\ UNCHANGED <<ready, ticks, edits, listeners, receiver, result, window, view>>

\* CanvasManager.stop()
ManagerStop ==
    /\ SetRelative(IF Iterated("relative")
                   THEN [Relative EXCEPT !.timerActive = TimerAfterStop(timerActive)]
                   ELSE Relative)
    /\ absolute' = (IF Iterated("absolute")
                    THEN [absolute EXCEPT !.timerActive = TimerAfterStop(@)]
                    ELSE absolute)
    /\ last' = [op |-> "manager.stop", keep |-> FALSE, arg |-> NoArg, was |-> timerActive]
    /\ calls' = ManagerCalls("stop", FALSE, NoArg)
    /\ UNCHANGED <<ready, ticks, edits, listeners, receiver, result, window, view>>

\* the relative canvas's timer fires
TickRelative ==
    /\ timerActive
    /\ ticks < MaxTicks
    /\ ticks' = ticks + 1
    /\ SetRelative(CanvasStep(Relative))
    /\ last' = [op |-> "tick.relative", keep |-> FALSE, arg |-> NoArg, was |-> timerActive]
    /\ calls' = StepCalls
    /\ UNCHANGED <<absolute, ready, edits, listeners, receiver, result, window, view>>

\* the absolute canvas's timer fires
TickAbsolute ==
    /\ absolute.timerActive
    /\ ticks < MaxTicks
    /\ ticks' = ticks + 1
    /\ absolute' = CanvasStep(absolute)
    /\ last' = [op |-> "tick.absolute", keep |-> FALSE, arg |-> NoArg,
                was |-> absolute.timerActive]
    /\ calls' = StepCalls
    /\ UNCHANGED <<orbit, mass, nu, M, timerActive, speedScale, dM>>
    /\ UNCHANGED <<ready, edits, listeners, receiver, result, window, view>>

NextManager ==
    \/ ManagerApplyParameters
    \/ ManagerApplyMasses
    \/ ManagerStart
    \/ ManagerStop
    \/ TickRelative
    \/ TickAbsolute

SpecManager == InitManager /\ [][NextManager]_vars


-----------------------------------------------------------------------------
(* What a canvas shows: OrbitCanvasBase, its VisibilityController and the     *)
(* decorations of OrbitDecorMixin.  The record `view` holds the visibility    *)
(* flags, the axes half-width _L (in units of 1e-3) with its lock, the        *)
(* "Sky Plane" label patch, the data of the omega arc and the visible flag of *)
(* every marker artist.  The reference triad, the N/E guides and the corner   *)
(* grid are not followed.                                                     *)

\* _L and _L_locked hold None
NoneL == -1

\* an arc artist whose data is empty
NoArc == [points |-> 0]

\* create_artists : the centre and body markers every canvas starts with
FactoryArtists == {"center", "body"}

\* AbsoluteCanvas.__init__ : the markers it puts in place of the factory's
AbsoluteArtists == {"barycenter", "body1", "body2"}

Artists == FactoryArtists \cup AbsoluteArtists

\* the markers that show centres and bodies on a canvas of this kind
\* (RelativeCanvas keeps the factory's; AbsoluteCanvas removes them, lines 18-33)
CenterMarkers(kind) == IF kind = "relative" THEN {"center"} ELSE {"barycenter"}
BodyMarkers(kind) == IF kind = "relative" THEN {"body"} ELSE {"body1", "body2"}

\* VisibilityContext.center3d / center2d : bound in OrbitCanvasBase.__init__ to the
\* artists the canvas has at that moment
ContextCenter(kind) == {"center"}

\* VisibilityContext.body_artists : bound in OrbitCanvasBase.__init__ to the list
\* the factory returned
ContextBodies(kind) == {"body"}

\* a * (1 + e), in units of 1e-3
ExtentL(o) == (ToMilli(o.a) * (1000 + o.e \div 1000)) \div 1000

\* OrbitDecorMixin._clear_sky_label_patch
ClearSkyLabelPatch(v) == [v EXCEPT !.sky_label_patch = FALSE]

\* OrbitDecorMixin._update_sky_label_patch : the patch is cleared, and made anew
\* if the label flag is set
UpdateSkyLabelPatch(v) ==
    IF ~v.show_sky_label THEN ClearSkyLabelPatch(v)
    ELSE [ClearSkyLabelPatch(v) EXCEPT !.sky_label_patch = TRUE]

\* OrbitDecorMixin._update_axes_limits, unlocked branch (line 178) :
\* float(self._L or a * (1 + e))
UnlockedL(v, o) == IF v.L # NoneL /\ v.L # 0 THEN v.L ELSE ExtentL(o)

\* OrbitDecorMixin._update_axes_limits
UpdateAxesLimits(v, o) ==
    LET L == IF v.lock_axes_limits /\ v.L_locked # NoneL
             THEN v.L_locked
             ELSE LET u == UnlockedL(v, o) IN IF u <= 0 THEN 1000 ELSE u
    IN  UpdateSkyLabelPatch([v EXCEPT !.L = L, !.sky_plane_visible = v.show_sky_plane])

\* OrbitCanvasBase.lock_axes(lock, L) ; L = NoneL stands for L=None
LockAxes(v, o, lock, L) ==
    LET locked == IF lock
                  THEN (IF L # NoneL THEN L ELSE IF v.L # NoneL THEN v.L ELSE NoneL)
                  ELSE NoneL
    IN  UpdateAxesLimits([v EXCEPT !.lock_axes_limits = lock, !.L_locked = locked], o)

\* OrbitCanvasBase.set_limits(L)
SetLimits(v, o, L) == UpdateSkyLabelPatch(LockAxes([v EXCEPT !.L = L], o, TRUE, L))

\* RelativeCanvas._update_w_arc : the 200 anomalies of the arc go on w_arc3d and
\* w_arc2d
RelativeUpdateWArc(v, o) ==
    [v EXCEPT !.w_arc = [points |-> 200, f |-> OmegaArcPoints(o.w % TwoPi, o.i)]]

\* AbsoluteCanvas._update_w_arc : empty data when the omega flag is off, else
\* the arcs of the two bodies (w and w + pi)
AbsoluteUpdateWArc(v, o) ==
    [v EXCEPT !.w_arc = IF ~v.show_omega THEN NoArc
                        ELSE [points |-> 200, f |-> OmegaArcPoints(o.w % TwoPi, o.i)]]

\* self._update_w_arc, by the class of the canvas
CanvasUpdateWArc(v, o) ==
    IF v.kind = "relative" THEN RelativeUpdateWArc(v, o) ELSE AbsoluteUpdateWArc(v, o)

\* OrbitCanvasBase.update_all : the limits, then the curves and the arcs
UpdateAll(v, o) == CanvasUpdateWArc(UpdateAxesLimits(v, o), o)

\* artist.set_visible(state) on each artist of the set
SetArtistsVisible(v, artists, state) ==
    [v EXCEPT !.visible = [x \in Artists |-> IF x \in artists THEN state ELSE @[x]]]

\* VisibilityController.set_omega_visible
SetOmegaVisible(v, o, visible) == CanvasUpdateWArc([v EXCEPT !.show_omega = visible], o)

\* VisibilityController.set_skyplane_label_visible
SetSkyplaneLabelVisible(v, visible) ==
    LET f == [v EXCEPT !.show_sky_label = visible]
    IN  IF visible /\ f.show_sky_plane THEN UpdateSkyLabelPatch(f)
        ELSE ClearSkyLabelPatch(f)

\* VisibilityController.set_sky_plane_visible
SetSkyPlaneVisible(v, visible) ==
    LET f == [v EXCEPT !.show_sky_plane = visible, !.sky_plane_visible = visible]
    IN  IF ~visible THEN ClearSkyLabelPatch(f)
        ELSE IF f.show_sky_label THEN UpdateSkyLabelPatch(f)
        ELSE f

\* VisibilityController.set_centers_visible (AbsoluteCanvas.set_centers_visible
\* adds _update_periastron, which touches no marker followed here)
SetCentersVisible(v, visible) ==
    SetArtistsVisible([v EXCEPT !.show_centers = visible], ContextCenter(v.kind), visible)

\* VisibilityController.set_bodies_visible
SetBodiesVisible(v, visible) ==
    SetArtistsVisible([v EXCEPT !.show_bodies = visible], ContextBodies(v.kind), visible)

\* the flags whose artists are not followed (_show_peri_link is AbsoluteCanvas's)
OtherFlags ==
    {"_show_nodes", "_show_line_nodes", "_show_Om", "_show_i_wedge", "_show_axis_triad",
     "_show_peri_link"}

\* VisibilityController.set_nodes_visible, set_line_of_nodes_visible,
\* set_Omega_visible, set_inclination_visible and AbsoluteCanvas.set_peri_link_visible :
\* the flag (their artists are not followed)
SetFlagVisible(v, flag, visible) == [v EXCEPT !.flags[flag] = visible]

\* VisibilityController.set_reference_axes_visible : showing the triad refreshes
\* the axes limits
SetReferenceAxesVisible(v, o, visible) ==
    LET f == SetFlagVisible(v, "_show_axis_triad", visible)
    IN  IF ~visible THEN f ELSE UpdateAxesLimits(f, o)

\* OrbitCanvasBase.__init__ (lines 97-158) : the flags and the axes state before
\* the subclass constructor goes on
BaseView(kind) ==
    [kind |-> kind,
     lock_axes_limits |-> FALSE, L_locked |-> NoneL, L |-> NoneL,
     show_sky_plane |-> TRUE, show_sky_label |-> TRUE, show_omega |-> TRUE,
     show_bodies |-> TRUE, show_centers |-> TRUE,
     flags |-> [f \in OtherFlags |-> TRUE],
     sky_plane_visible |-> TRUE, sky_label_patch |-> FALSE, w_arc |-> NoArc,
     on_axes |-> FactoryArtists,
     visible |-> [x \in Artists |-> TRUE]]

\* RelativeCanvas.__init__ / AbsoluteCanvas.__init__ : the view once the
\* constructor is done
NewView(kind) ==
    LET o == OrbitEnsureValid(InitOrbit)
    IN  IF kind = "relative" THEN UpdateAll(BaseView(kind), o)
        ELSE UpdateAll(SetCentersVisible(
                 [BaseView(kind) EXCEPT !.on_axes = AbsoluteArtists], TRUE), o)


\* parameter sets, masses, half-widths and flags handed to a canvas
ViewParams ==
    {[a |-> 2 * One, e |-> EOne \div 5, i |-> Deg(135), w |-> Deg(300),
      Om |-> Deg(25), start_nu |-> Deg(45)]}
ViewMasses == {[m1 |-> One, m2 |-> One]}
ViewMassValues == {2 * One}
LockLengths == {NoneL, 2400}
LimitLengths == {3300}

\* RelativeCanvas() or AbsoluteCanvas(), on its own
InitView ==
    \E kind \in {"relative", "absolute"} :
        /\ orbit = NewCanvas.orbit
        /\ mass = NewCanvas.mass
        /\ nu = NewCanvas.nu
        /\ M = NewCanvas.M
        /\ timerActive = NewCanvas.timerActive
        /\ speedScale = NewCanvas.speedScale
        /\ dM = NewCanvas.dM
        /\ ready = TRUE
        /\ ticks = 0
        /\ edits = 0
        /\ last = [op |-> kind, keep |-> FALSE, arg |-> NoArg, was |-> FALSE]
        /\ calls = <<>>
        /\ listeners = CanvasListeners
        /\ receiver = NoArg
        /\ absolute = NoCanvas
        /\ result = NoArg
        /\ window = NoWindow
        /\ view = NewView(kind)

\* what a call that only changes what is shown leaves alone
ViewFrame ==
    UNCHANGED <<orbit, mass, nu, M, timerActive, speedScale, dM, ready, ticks, edits,
                listeners, receiver, absolute, result, window>>

\* canvas.apply_parameters(p, keep_phase=keep_phase) : the model and the phase,
\* then _update_axes_limits() and update_all()
CallApplyParameters ==
    \E p \in ViewParams, keep_phase \in BOOLEAN :
        /\ edits < MaxEdits
        /\ edits' = edits + 1
        /\ SetRelative(CanvasApplyParameters(Relative, p, keep_phase))
        /\ view' = UpdateAll(UpdateAxesLimits(view, orbit'), orbit')
        /\ last' = [op |-> "apply_parameters", keep |-> keep_phase, arg |-> p,
                    was |-> timerActive]
        /\ calls' = <<"_update_axes_limits", "update_all">>
        /\ UNCHANGED <<ready, ticks, listeners, receiver, absolute, result, window>>

\* canvas.apply_masses(m) : the model, then update_all()
CallApplyMasses ==
    \E m \in ViewMasses :
        /\ edits < MaxEdits
        /\ edits' = edits + 1
        /\ SetRelative(CanvasApplyMasses(Relative, m))
        /\ view' = UpdateAll(view, orbit')
        /\ last' = [op |-> "apply_masses", keep |-> FALSE, arg |-> m, was |-> timerActive]
        /\ calls' = <<"update_all">>
        /\ UNCHANGED <<ready, ticks, listeners, receiver, absolute, result, window>>

\* canvas.m1 = value, canvas.m2 = value : orbit_model.update_masses and the
\* listener's recompute_mean_motion; nothing is redrawn
CallSetMass ==
    \E key \in {"m1", "m2"}, value \in ViewMassValues :
        /\ edits < MaxEdits
        /\ edits' = edits + 1
        /\ LET stored == UpdateMassesValue(mass, Kw(key, value))
           IN  SetRelative([Relative EXCEPT
                   !.mass = stored,
                   !.dM = RecomputeMeanMotion(speedScale, stored, orbit.a)])
        /\ last' = [op |-> key, keep |-> FALSE, arg |-> [v |-> value], was |-> timerActive]
        /\ calls' = <<>>
        /\ UNCHANGED <<ready, ticks, listeners, receiver, absolute, result, window, view>>

\* canvas.lock_axes(lock, L)
CallLockAxes ==
    \E lock \in BOOLEAN, L \in LockLengths :
        /\ view' = LockAxes(view, orbit, lock, L)
        /\ last' = [op |-> "lock_axes", keep |-> lock, arg |-> [v |-> L],
                    was |-> timerActive]
        /\ calls' = <<"_update_axes_limits">>
        /\ ViewFrame

\* canvas.set_limits(L)
CallSetLimits ==
    \E L \in LimitLengths :
        /\ view' = SetLimits(view, orbit, L)
        /\ last' = [op |-> "set_limits", keep |-> FALSE, arg |-> [v |-> L],
                    was |-> timerActive]
        /\ calls' = <<"lock_axes", "_update_sky_label_patch">>
        /\ ViewFrame

\* canvas.update_all()
CallUpdateAll ==
    /\ view' = UpdateAll(view, orbit)
    /\ last' = [op |-> "update_all", keep |-> FALSE, arg |-> NoArg, was |-> timerActive]
    /\ calls' = <<"_update_axes_limits", "_update_w_arc">>
    /\ ViewFrame

\* canvas.set_sky_plane_visible(visible)
CallSetSkyPlaneVisible ==
    \E visible \in BOOLEAN :
        /\ view' = SetSkyPlaneVisible(view, visible)
        /\ last' = [op |-> "set_sky_plane_visible", keep |-> visible, arg |-> NoArg,
                    was |-> timerActive]
        /\ calls' = <<>>
        /\ ViewFrame

\* canvas.set_skyplane_label_visible(visible)
CallSetSkyplaneLabelVisible ==
    \E visible \in BOOLEAN :
        /\ view' = SetSkyplaneLabelVisible(view, visible)
        /\ last' = [op |-> "set_skyplane_label_visible", keep |-> visible, arg |-> NoArg,
                    was |-> timerActive]
        /\ calls' = <<>>
        /\ ViewFrame

\* canvas.set_omega_visible(visible)
CallSetOmegaVisible ==
    \E visible \in BOOLEAN :
        /\ view' = SetOmegaVisible(view, orbit, visible)
        /\ last' = [op |-> "set_omega_visible", keep |-> visible, arg |-> NoArg,
                    was |-> timerActive]
        /\ calls' = <<"_update_w_arc">>
        /\ ViewFrame

\* canvas.set_centers_visible(visible)
CallSetCentersVisible ==
    \E visible \in BOOLEAN :
        /\ view' = SetCentersVisible(view, visible)
        /\ last' = [op |-> "set_centers_visible", keep |-> visible, arg |-> NoArg,
                    was |-> timerActive]
        /\ calls' = <<>>
        /\ ViewFrame

\* canvas.set_bodies_visible(visible)
CallSetBodiesVisible ==
    \E visible \in BOOLEAN :
        /\ view' = SetBodiesVisible(view, visible)
        /\ last' = [op |-> "set_bodies_visible", keep |-> visible, arg |-> NoArg,
                    was |-> timerActive]
        /\ calls' = <<>>
        /\ ViewFrame

\* a canvas under parameter and mass edits, axes-limit calls and sky-plane toggles
NextAxes ==
    \/ CallApplyParameters
    \/ CallApplyMasses
    \/ CallSetMass
    \/ CallLockAxes
    \/ CallSetLimits
    \/ CallUpdateAll
    \/ CallSetSkyPlaneVisible
    \/ CallSetSkyplaneLabelVisible

SpecAxes == InitView /\ [][NextAxes]_vars

\* a canvas under marker and arc toggles, parameter and mass edits, update_all
\* and ticks
NextVisibility ==
    \/ CallSetOmegaVisible
    \/ CallSetCentersVisible
    \/ CallSetBodiesVisible
    \/ CallApplyParameters
    \/ CallApplyMasses
    \/ CallSetMass
    \/ CallUpdateAll
    \/ Start
    \/ Stop
    \/ Tick

SpecVisibility == InitView /\ [][NextVisibility]_vars


-----------------------------------------------------------------------------
(* The option check boxes: OptionController, ToggleAdapter and                *)
(* CanvasManager.set_visibility.  Here `view` holds the views of the two      *)
(* canvases of the manager, `calls` the handler calls the last operation made *)
(* on them, and `window` the option controller with its check boxes and the   *)
(* calls its adapter received.                                                *)

\* the elements of a sequence
Range(q) == {q[k] : k \in DOMAIN q}

\* option_specs : the keys in the order they are declared; every option starts
\* checked
OptionSpecs ==
    <<"show_nodes", "show_line_nodes", "show_sky_plane", "show_axis_triad", "show_Omega",
      "show_centers", "show_omega", "show_peri_link", "show_inclination", "show_bodies">>

\* a key no option and no binding is declared for
UnknownKey == "show_grid"

OptionUniverse == Range(OptionSpecs) \cup {UnknownKey}

\* the keys the operations are called with
OptionInputs == {"show_omega", "show_sky_plane", "show_peri_link", UnknownKey}

\* VISIBILITY_BINDINGS : key -> scope and handler
VisibilityBindings ==
    [key \in Range(OptionSpecs) |->
        CASE key = "show_nodes" -> [scope |-> "both", handler |-> "set_nodes_visible"]
          [] key = "show_line_nodes" ->
                 [scope |-> "both", handler |-> "set_line_of_nodes_visible"]
          [] key = "show_Omega" -> [scope |-> "both", handler |-> "set_Omega_visible"]
          [] key = "show_omega" -> [scope |-> "both", handler |-> "set_omega_visible"]
          [] key = "show_inclination" ->
                 [scope |-> "both", handler |-> "set_inclination_visible"]
          [] key = "show_sky_plane" -> [scope |-> "both", handler |-> "set_sky_plane_visible"]
          [] key = "show_axis_triad" ->
                 [scope |-> "both", handler |-> "set_reference_axes_visible"]
          [] key = "show_centers" -> [scope |-> "both", handler |-> "set_centers_visible"]
          [] key = "show_bodies" -> [scope |-> "both", handler |-> "set_bodies_visible"]
          [] key = "show_peri_link" -> [scope |-> "abs", handler |-> "set_peri_link_visible"]]

\* a manager that sends every key to both canvases
TargetsEveryCanvas(scope) == <<"relative", "absolute">>

\* CanvasManager._targets(scope, key)
Targets(scope) ==
    IF scope = "rel" THEN <<"relative">>
    ELSE IF scope = "abs" THEN <<"absolute">>
    ELSE <<"relative", "absolute">>

\* CanvasManager.set_visibility(key, value) : the handler calls it makes, in order
SetVisibilityCalls(key, value) ==
    IF key \notin DOMAIN VisibilityBindings THEN <<>>
    ELSE LET binding == VisibilityBindings[key]
             targets == Targets(binding.scope)
         IN  [k \in 1..Len(targets) |->
                 [canvas |-> targets[k], handler |-> binding.handler, value |-> value]]

\* the canvas method a handler calls, on the view v of a canvas holding the orbit o
CanvasHandle(v, o, handler, value) ==
    CASE handler = "set_omega_visible" -> SetOmegaVisible(v, o, value)
      [] handler = "set_sky_plane_visible" -> SetSkyPlaneVisible(v, value)
      [] handler = "set_centers_visible" -> SetCentersVisible(v, value)
      [] handler = "set_bodies_visible" -> SetBodiesVisible(v, value)
      [] handler = "set_reference_axes_visible" -> SetReferenceAxesVisible(v, o, value)
      [] handler = "set_nodes_visible" -> SetFlagVisible(v, "_show_nodes", value)
      [] handler = "set_line_of_nodes_visible" -> SetFlagVisible(v, "_show_line_nodes", value)
      [] handler = "set_Omega_visible" -> SetFlagVisible(v, "_show_Om", value)
      [] handler = "set_inclination_visible" -> SetFlagVisible(v, "_show_i_wedge", value)
      [] handler = "set_peri_link_visible" -> SetFlagVisible(v, "_show_peri_link", value)

\* the views of the two canvases after the handler calls cs, made in order;
\* orbits holds the orbit of each canvas
RECURSIVE ApplyCanvasCalls(_, _, _)
ApplyCanvasCalls(views, orbits, cs) ==
    IF cs = <<>> THEN views
    ELSE LET c == Head(cs)
         IN  ApplyCanvasCalls(
                 [views EXCEPT ![c.canvas] =
                     CanvasHandle(@, orbits[c.canvas], c.handler, c.value)],
                 orbits, Tail(cs))

\* ToggleAdapter.apply(key, value) for each entry of the log, in order : the
\* handler calls CanvasManager.set_visibility makes
RECURSIVE AdapterCalls(_)
AdapterCalls(log) ==
    IF log = <<>> THEN <<>>
    ELSE SetVisibilityCalls(Head(log).key, Head(log).value) \o AdapterCalls(Tail(log))

\* OptionController.__init__(option_specs) beside the check boxes
\* build_options_group made : no adapter, nothing connected
NewOptionController ==
    [keys |-> OptionSpecs,
     checked |-> [k \in OptionUniverse |-> TRUE],
     adapter |-> FALSE,
     boxes |-> [k \in Range(OptionSpecs) |-> TRUE],
     connections |-> 0,
     log |-> <<>>,
     applied |-> [k \in OptionUniverse |-> "none"]]

\* an adapter call that passes the opposite value
ApplyToggleInverted(oc, key) ==
    IF ~oc.adapter THEN oc
    ELSE [oc EXCEPT !.log = Append(@, [key |-> key, value |-> ~oc.checked[key]]),
                    !.applied[key] = ~oc.checked[key]]

\* OptionController._apply_toggle(key) : adapter.apply(key, state) if there is an
\* adapter
ApplyToggle(oc, key) ==
    IF ~oc.adapter THEN oc
    ELSE [oc EXCEPT !.log = Append(@, [key |-> key, value |-> oc.checked[key]]),
                    !.applied[key] = oc.checked[key]]

\* OptionController.apply_all : _apply_toggle for the first n keys of _state
RECURSIVE ApplyFirst(_, _)
ApplyFirst(oc, n) ==
    IF n = 0 THEN oc ELSE ApplyToggle(ApplyFirst(oc, n - 1), oc.keys[n])

\* OptionController.apply_all
ApplyAll(oc) == ApplyFirst(oc, Len(oc.keys))

\* OptionController.attach_adapter
AttachAdapter(oc) == ApplyAll([oc EXCEPT !.adapter = TRUE])

\* OptionController.set_state(key, value) : setdefault, store, _apply_toggle
SetState(oc, key, value) ==
    ApplyToggle([oc EXCEPT !.keys = IF key \in Range(@) THEN @ ELSE Append(@, key),
                           !.checked[key] = value], key)

\* OptionController.register_checkboxes : each box takes the stored state with
\* its signals blocked, then toggled is connected to set_state
RegisterCheckboxes(oc) ==
    [oc EXCEPT !.boxes = [k \in DOMAIN @ |->
                             IF k \in Range(oc.keys) THEN oc.checked[k] ELSE TRUE],
               !.connections = @ + 1]

\* QCheckBox.toggled(value) : set_state(key, value) once per connection
RECURSIVE Toggled(_, _, _, _)
Toggled(oc, key, value, n) ==
    IF n = 0 THEN oc ELSE SetState(Toggled(oc, key, value, n - 1), key, value)

MaxRegistrations == 2   \* register_checkboxes calls in one run

\* CanvasManager(), OptionController(option_specs) and the check boxes
InitOptions ==
    /\ orbit = NewCanvas.orbit
    /\ mass = NewCanvas.mass
    /\ nu = NewCanvas.nu
    /\ M = NewCanvas.M
    /\ timerActive = NewCanvas.timerActive
    /\ speedScale = NewCanvas.speedScale
    /\ dM = NewCanvas.dM
    /\ absolute = NewCanvas
    /\ ready = TRUE
    /\ ticks = 0
    /\ edits = 0
    /\ last = [op |-> "OptionController", keep |-> FALSE, arg |-> NoArg, was |-> FALSE]
    /\ calls = <<>>
    /\ listeners = CanvasListeners
    /\ receiver = NoArg
    /\ result = NoArg
    /\ window = NewOptionController
    /\ view = [relative |-> NewView("relative"), absolute |-> NewView("absolute")]

\* what an option operation leaves alone
OptionFrame ==
    UNCHANGED <<orbit, mass, nu, M, timerActive, speedScale, dM, absolute, ready, ticks,
                listeners, receiver, result>>

\* the option controller becomes oc ; the calls its adapter received go on to the
\* manager and the canvases
OptionStep(oc, op, key, value) ==
    /\ window' = oc
    /\ calls' = AdapterCalls(oc.log)
    /\ view' = ApplyCanvasCalls(view, [relative |-> orbit, absolute |-> absolute.orbit],
                                calls')
    /\ last' = [op |-> op, keep |-> value, arg |-> [key |-> key], was |-> window.adapter]
    /\ OptionFrame

\* option_controller.set_state(key, value)
OptionSetState ==
    \E key \in OptionInputs, value \in BOOLEAN :
        /\ edits < MaxEdits
        /\ edits' = edits + 1
        /\ OptionStep(SetState([window EXCEPT !.log = <<>>], key, value),
                      "set_state", key, value)

\* the user clicks a check box : it changes and emits toggled
CheckboxToggled ==
    \E key \in OptionInputs \cap Range(OptionSpecs) :
        /\ edits < MaxEdits
        /\ edits' = edits + 1
        /\ LET value == ~window.boxes[key]
               box == [window EXCEPT !.log = <<>>, !.boxes[key] = value]
           IN  OptionStep(Toggled(box, key, value, window.connections),
                          "toggled", key, value)

\* option_controller.attach_adapter(ToggleAdapter(manager))
OptionAttachAdapter ==
    /\ UNCHANGED edits
    /\ OptionStep(AttachAdapter([window EXCEPT !.log = <<>>]), "attach_adapter",
                  UnknownKey, FALSE)

\* option_controller.apply_all()
OptionApplyAll ==
    /\ UNCHANGED edits
    /\ OptionStep(ApplyAll([window EXCEPT !.log = <<>>]), "apply_all", UnknownKey, FALSE)

\* option_controller.register_checkboxes(checkboxes)
OptionRegisterCheckboxes ==
    /\ window.connections < MaxRegistrations
    /\ UNCHANGED edits
    /\ OptionStep(RegisterCheckboxes([window EXCEPT !.log = <<>>]), "register_checkboxes",
                  UnknownKey, FALSE)

\* canvas_manager.set_visibility(key, value), called directly
ManagerSetVisibility ==
    \E key \in OptionInputs, value \in BOOLEAN :
        /\ edits < MaxEdits
        /\ edits' = edits + 1
        /\ calls' = SetVisibilityCalls(key, value)
        /\ view' = ApplyCanvasCalls(view, [relative |-> orbit, absolute |-> absolute.orbit],
                                    calls')
        /\ last' = [op |-> "set_visibility", keep |-> value, arg |-> [key |-> key],
                    was |-> window.adapter]
        /\ UNCHANGED window
        /\ OptionFrame

NextOptions ==
    \/ OptionSetState
    \/ CheckboxToggled
    \/ OptionAttachAdapter
    \/ OptionApplyAll
    \/ OptionRegisterCheckboxes
    \/ ManagerSetVisibility

SpecOptions == InitOptions /\ [][NextOptions]_vars


-----------------------------------------------------------------------------
(* The parameter controls: ParameterController over slider / spin-box pairs.  *)
(* Values are in units of 1e-3.  Here `window` maps each key to its pair of   *)
(* widgets: the value of the spin box and of the slider, whether bind() has   *)
(* connected them, their blockSignals flags, and, for the last operation, the *)
(* number of valueChanged emissions and of callback invocations.              *)

MaxCascade == 4   \* nested valueChanged emissions followed in one operation

\* the controls: `e` as make_size_parameters and build_parameter_group make it
\* (range 0 .. 0.95, step 0.01, two decimals, slider 0 .. 95), and `p`, whose
\* spin box accepts far more than its slider covers (minimum 1.0, step 0.5,
\* slider 0 .. 100, spin range -1e6 .. 1e6, two decimals)
Controls ==
    [e |-> [minimum |-> 0, step |-> 10, quantum |-> 10,
            spin_min |-> 0, spin_max |-> 950, slider_max |-> 95],
     p |-> [minimum |-> 1000, step |-> 500, quantum |-> 10,
            spin_min |-> -1000000000, spin_max |-> 1000000000, slider_max |-> 100]]

\* QDoubleSpinBox.setValue : the value rounded to the decimals and kept in range
SpinBound(c, x) == Max(c.spin_min, Min(c.spin_max, DivR(x, c.quantum) * c.quantum))

\* QSlider.setValue : the value kept in range
SliderBound(c, s) == Max(0, Min(c.slider_max, s))

\* Python's round(a / b) for b > 0 : to the nearest integer, a tie to the even one
RoundHalfEven(a, b) ==
    LET q == DivR(a, b)
    IN  IF (2 * a + b) % (2 * b) = 0 /\ q % 2 # 0 THEN q - 1 ELSE q

\* int(round((x - minimum) / step))
SliderFromValue(c, x) == RoundHalfEven(x - c.minimum, c.step)

\* minimum + v * step
ValueFromSlider(c, s) == c.minimum + s * c.step

\* build_parameter_group : the pair showing the value x, nothing connected
NewControl(c, x) ==
    [spin |-> SpinBound(c, x), slider |-> SliderBound(c, SliderFromValue(c, x)),
     bound |-> FALSE, spin_blocked |-> FALSE, slider_blocked |-> FALSE,
     emissions |-> 0, callbacks |-> 0, unsettled |-> FALSE]

\* spin.setValue(x) and slider.setValue(s) with the slots bind() connected:
\* a widget whose value changes emits valueChanged unless its signals are
\* blocked; the spin box's signal runs _spn_to_sld and then the callback, the
\* slider's runs _sld_to_spn.  n is the number of nested emissions still followed.
RECURSIVE SpinSetValue(_, _, _, _)
RECURSIVE SliderSetValue(_, _, _, _)
SpinSetValue(w, c, x, n) ==
    LET nx == SpinBound(c, x)
        w1 == [w EXCEPT !.spin = nx]
    IN  IF nx = w.spin THEN w
        ELSE IF w.spin_blocked \/ ~w.bound THEN w1
        ELSE IF n = 0 THEN [w1 EXCEPT !.unsettled = TRUE]
        ELSE LET w2 == SliderSetValue([w1 EXCEPT !.emissions = @ + 1], c,
                                      SliderFromValue(c, nx), n - 1)
             IN  [w2 EXCEPT !.callbacks = @ + 1]
SliderSetValue(w, c, s, n) ==
    LET ns == SliderBound(c, s)
        w1 == [w EXCEPT !.slider = ns]
    IN  IF ns = w.slider THEN w
        ELSE IF w.slider_blocked \/ ~w.bound THEN w1
        ELSE IF n = 0 THEN [w1 EXCEPT !.unsettled = TRUE]
        ELSE SpinSetValue([w1 EXCEPT !.emissions = @ + 1], c, ValueFromSlider(c, ns),
                          n - 1)

\* a set_value that leaves the signals on
SetValueUnblocked(w, c, value) ==
    SliderSetValue(SpinSetValue(w, c, value, MaxCascade), c,
                   SliderFromValue(c, value), MaxCascade)

\* ParameterController.set_value(key, value)
SetValue(w, c, value) ==
    LET b == [w EXCEPT !.spin_blocked = TRUE, !.slider_blocked = TRUE]
        s == SliderSetValue(SpinSetValue(b, c, value, MaxCascade), c,
                            SliderFromValue(c, value), MaxCascade)
    IN  [s EXCEPT !.spin_blocked = FALSE, !.slider_blocked = FALSE]

\* the counters of a pair at the start of an operation
Fresh(w) == [w EXCEPT !.emissions = 0, !.callbacks = 0, !.unsettled = FALSE]

\* values handed to set_value and typed into the spin box (1250 lies halfway
\* between two slider positions of `p`), slider positions
ControlValues == {-1000, 0, 370, 374, 950, 1250, 1500, 3000, 3200, 60000}
SliderPositions == {0, 4, 37, 95, 100}

\* ParameterController(controls) over freshly built controls
InitControls ==
    /\ orbit = NewCanvas.orbit
    /\ mass = NewCanvas.mass
    /\ nu = NewCanvas.nu
    /\ M = NewCanvas.M
    /\ timerActive = NewCanvas.timerActive
    /\ speedScale = NewCanvas.speedScale
    /\ dM = NewCanvas.dM
    /\ absolute = NoCanvas
    /\ ready = TRUE
    /\ ticks = 0
    /\ edits = 0
    /\ last = [op |-> "ParameterController", keep |-> FALSE, arg |-> NoArg, was |-> FALSE]
    /\ calls = <<>>
    /\ listeners = CanvasListeners
    /\ receiver = NoArg
    /\ result = NoArg
    /\ window = [e |-> NewControl(Controls.e, 550), p |-> NewControl(Controls.p, 1000)]
    /\ view = NoView

\* what an operation on the controls leaves alone
ControlFrame ==
    UNCHANGED <<orbit, mass, nu, M, timerActive, speedScale, dM, ready, ticks, calls,
                listeners, receiver, absolute, result, view>>

\* the pair `key` becomes w ; last.keep tells whether it was bound, last.was
\* whether the spin box's value changed
ControlStep(key, w, op, value) ==
    /\ window' = [k \in DOMAIN window |-> IF k = key THEN w ELSE Fresh(window[k])]
    /\ last' = [op |-> op, keep |-> window[key].bound,
                arg |-> [key |-> key, v |-> value],
                was |-> w.spin # window[key].spin]
    /\ ControlFrame

\* ParameterController.bind(key, callback)
ControlBind ==
    \E key \in DOMAIN Controls :
        /\ ~window[key].bound
        /\ UNCHANGED edits
        /\ ControlStep(key, [Fresh(window[key]) EXCEPT !.bound = TRUE], "bind", 0)

\* ParameterController.set_value(key, value)
ControlSetValue ==
    \E key \in DOMAIN Controls, value \in ControlValues :
        /\ edits < MaxEdits
        /\ edits' = edits + 1
        /\ ControlStep(key, SetValue(Fresh(window[key]), Controls[key], value),
                       "set_value", value)

\* the user types a value into the spin box (the window is shown once its
\* constructor has bound the controls)
UserSpin ==
    \E key \in DOMAIN Controls, value \in ControlValues :
        /\ window[key].bound
        /\ SpinBound(Controls[key], value) # window[key].spin
        /\ edits < MaxEdits
        /\ edits' = edits + 1
        /\ ControlStep(key, SpinSetValue(Fresh(window[key]), Controls[key], value,
                                         MaxCascade),
                       "user_spin", value)

\* the user drags the slider
UserSlider ==
    \E key \in DOMAIN Controls, s \in SliderPositions :
        /\ window[key].bound
        /\ SliderBound(Controls[key], s) # window[key].slider
        /\ edits < MaxEdits
        /\ edits' = edits + 1
        /\ ControlStep(key, SliderSetValue(Fresh(window[key]), Controls[key], s,
                                           MaxCascade),
                       "user_slider", s)

NextControls ==
    \/ ControlBind
    \/ ControlSetValue
    \/ UserSpin
    \/ UserSlider

SpecControls == InitControls /\ [][NextControls]_vars


-----------------------------------------------------------------------------
(* The main window: MainWindow over a CanvasManager, the parameter controls,  *)
(* the option controller and the play / reset strip.  `window` holds the      *)
(* strip's flag, the controls, the option controller and the half-width read  *)
(* from the absolute canvas; `view` holds the views of the two canvases.      *)
(* Spin boxes hold their value in units of 1e-3.  Tick counts and font sizes  *)
(* of the plots are not part of a view.                                       *)

\* the keys of the parameter controls
OrbitKeys == {"a", "e", "i", "w", "Om"}
MassKeys == {"m1", "m2"}

\* make_size_parameters, make_orientation_parameters, make_mass_parameters with
\* rel_a_min = 0.5 and rel_a_max = 2.35 : range, step, decimals and default of
\* each control as build_parameter_group sets them up
WindowControls ==
    [a  |-> [minimum |-> 500, step |-> 10, quantum |-> 10, spin_min |-> 500,
             spin_max |-> 2350, slider_max |-> 185, default |-> 500],
     e  |-> [minimum |-> 0, step |-> 10, quantum |-> 10, spin_min |-> 0,
             spin_max |-> 950, slider_max |-> 95, default |-> 550],
     i  |-> [minimum |-> 0, step |-> 1000, quantum |-> 1000, spin_min |-> 0,
             spin_max |-> 180000, slider_max |-> 180, default |-> 40000],
     w  |-> [minimum |-> 0, step |-> 1000, quantum |-> 1000, spin_min |-> 0,
             spin_max |-> 360000, slider_max |-> 360, default |-> 60000],
     Om |-> [minimum |-> 0, step |-> 1000, quantum |-> 1000, spin_min |-> 0,
             spin_max |-> 360000, slider_max |-> 360, default |-> 25000],
     m1 |-> [minimum |-> 100, step |-> 100, quantum |-> 100, spin_min |-> 100,
             spin_max |-> 5000, slider_max |-> 49, default |-> 2000],
     m2 |-> [minimum |-> 100, step |-> 100, quantum |-> 100, spin_min |-> 100,
             spin_max |-> 5000, slider_max |-> 49, default |-> 1200]]

\* np.rad2deg, in units of 1e-3 degree
RadToDeg(x) == DivR(x * 1800, Pi) * 100

\* OrbitStateAdapter.write_orbit_params : set_value on a, e, i, w, Om
WriteOrbitParams(cs, p) ==
    [cs EXCEPT !.a = SetValue(@, WindowControls.a, ToMilli(p.a)),
               !.e = SetValue(@, WindowControls.e, DivR(p.e, 1000)),
               !.i = SetValue(@, WindowControls.i, RadToDeg(p.i)),
               !.w = SetValue(@, WindowControls.w, RadToDeg(p.w)),
               !.Om = SetValue(@, WindowControls.Om, RadToDeg(p.Om))]

\* OrbitStateAdapter.write_masses : set_value on m1, m2
WriteMasses(cs, m) ==
    [cs EXCEPT !.m1 = SetValue(@, WindowControls.m1, ToMilli(m.m1)),
               !.m2 = SetValue(@, WindowControls.m2, ToMilli(m.m2))]

\* OrbitStateAdapter.read_orbit_params(start_nu) : the spin boxes' values, the
\* angles through np.deg2rad
ReadOrbitParams(cs, start_nu) ==
    [a |-> cs.a.spin * Milli, e |-> cs.e.spin * 1000,
     i |-> Deg(cs.i.spin \div 1000), w |-> Deg(cs.w.spin \div 1000),
     Om |-> Deg(cs.Om.spin \div 1000), start_nu |-> start_nu]

\* OrbitStateAdapter.read_masses
ReadMasses(cs) == [m1 |-> cs.m1.spin * Milli, m2 |-> cs.m2.spin * Milli]

\* a play strip whose flag stays set
SetPlayingStuck(playing) == TRUE

\* PlayerControls.setPlaying(playing) : the flag the strip keeps
SetPlaying(playing) == playing

\* a reset that keeps the phase
InitKeepPhaseKept == TRUE

\* the keep_phase apply_params_from_init hands to the canvases (line 182)
InitKeepPhase == FALSE

\* the half-widths apply_params_from_init hands to set_limits (line 191)
RelLimit == 3300
AbsLimit == 2400

\* the element of a one-element set ; { f(v) : v \in {x} } works x out once
Only(set) == CHOOSE v \in set : TRUE

\* the window, its canvases and their views as one record
World ==
    [playing |-> window.playing, controls |-> window.controls,
     options |-> window.options, abs_axes_lock_L |-> window.abs_axes_lock_L,
     relative |-> Relative, absolute |-> absolute, views |-> view]

\* the variables take the values of the record x
Install(x) ==
    \E v \in {x} :
        /\ SetRelative(v.relative)
        /\ absolute' = v.absolute
        /\ view' = v.views
        /\ window' = [playing |-> v.playing, controls |-> v.controls,
                      options |-> v.options, abs_axes_lock_L |-> v.abs_axes_lock_L]

\* the orbits the two canvases of x hold
WorldOrbits(x) == [relative |-> x.relative.orbit, absolute |-> x.absolute.orbit]

\* CanvasManager.apply_parameters(p, keep_phase) : each canvas stores p, sets
\* its phase, and runs _update_axes_limits() and update_all()
WorldApplyParameters(x, p, keep_phase) ==
    Only({[v EXCEPT !.relative = r, !.absolute = b,
                    !.views.relative = UpdateAll(UpdateAxesLimits(@, r.orbit), r.orbit),
                    !.views.absolute = UpdateAll(UpdateAxesLimits(@, b.orbit), b.orbit)] :
          <<v, r, b>> \in {<<y, CanvasApplyParameters(y.relative, p, keep_phase),
                               CanvasApplyParameters(y.absolute, p, keep_phase)>> :
                           y \in {x}}})

\* CanvasManager.apply_masses(m) : each canvas stores m and runs update_all()
WorldApplyMasses(x, m) ==
    Only({[v EXCEPT !.relative = CanvasApplyMasses(@, m),
                    !.absolute = CanvasApplyMasses(@, m),
                    !.views.relative = UpdateAll(@, v.relative.orbit),
                    !.views.absolute = UpdateAll(@, v.absolute.orbit)] : v \in {x}})

\* CanvasManager.start() / stop() : every canvas's animator
WorldStart(x) ==
    [x EXCEPT !.relative.timerActive = TimerAfterStart(@),
              !.absolute.timerActive = TimerAfterStart(@)]
WorldStop(x) ==
    [x EXCEPT !.relative.timerActive = TimerAfterStop(@),
              !.absolute.timerActive = TimerAfterStop(@)]

\* option_controller.apply_all() with the ToggleAdapter attached : every stored
\* option goes through CanvasManager.set_visibility to the canvases
WorldApplyOptions(x, oc) ==
    Only({[v EXCEPT !.options = [c EXCEPT !.log = <<>>], !.views = vs] :
          <<v, c, vs>> \in
              {<<y[1], y[2], ApplyCanvasCalls(y[1].views, y[3], y[4])>> :
                  y \in {<<z[1], z[2], WorldOrbits(z[1]), AdapterCalls(z[2].log)>> :
                             z \in {<<x, oc>>}}}})

\* MainWindow.apply_params_from_init : the seeds of the relative canvas's init
\* go into the controls and are read back, both canvases take them, the axes
\* are locked and limited, the font size is applied and the options re-applied
ApplyParamsFromInit(x) ==
    LET seeded(y) == [y EXCEPT !.controls =
                         WriteMasses(WriteOrbitParams(@, InitOrbit), InitMass)]
        applied(y) ==
            WorldApplyMasses(
                WorldApplyParameters(
                    y, ReadOrbitParams(y.controls, InitOrbit.start_nu), InitKeepPhase),
                ReadMasses(y.controls))
        locked(y) ==
            [y EXCEPT !.views.relative = LockAxes(@, y.relative.orbit, TRUE, NoneL),
                      !.views.absolute =
                          LockAxes(@, y.absolute.orbit, TRUE, y.abs_axes_lock_L)]
        limited(y) ==
            [y EXCEPT !.views.relative = SetLimits(@, y.relative.orbit, RelLimit),
                      !.views.absolute = SetLimits(@, y.absolute.orbit, AbsLimit)]
        sized(y) == [y EXCEPT !.views.relative = UpdateSkyLabelPatch(@),
                              !.views.absolute = UpdateSkyLabelPatch(@)]
        options(y) == WorldApplyOptions(y, ApplyAll([y.options EXCEPT !.log = <<>>]))
    IN  Only({options(x5) :
              x5 \in {sized(x4) :
                  x4 \in {limited(x3) :
                      x3 \in {locked(x2) :
                          x2 \in {applied(x1) : x1 \in {seeded(x0) : x0 \in {x}}}}}}})

\* MainWindow.__init__ up to line 73 : the canvases, the option controller with
\* its check boxes registered and the ToggleAdapter attached, the half-width
\* of the absolute canvas, the controls at their defaults and bound
BuiltWindow ==
    LET x0 == [playing |-> FALSE,
               controls |-> [k \in DOMAIN WindowControls |->
                                [NewControl(WindowControls[k], WindowControls[k].default)
                                    EXCEPT !.bound = TRUE]],
               options |-> NewOptionController,
               abs_axes_lock_L |-> NewView("absolute").L,
               relative |-> NewCanvas, absolute |-> NewCanvas,
               views |-> [relative |-> NewView("relative"),
                          absolute |-> NewView("absolute")]]
    IN  WorldApplyOptions(x0, AttachAdapter(RegisterCheckboxes(NewOptionController)))

\* MainWindow.__init__ : lines 75-76 end it with apply_params_from_init() and
\* option_controller.apply_all()
NewWindow ==
    Only({WorldApplyOptions(x, ApplyAll([x.options EXCEPT !.log = <<>>])) :
          x \in {ApplyParamsFromInit(BuiltWindow)}})

\* MainWindow._on_play_toggled(play)
OnPlayToggled(x, play) ==
    [(IF play THEN WorldStart(x) ELSE WorldStop(x)) EXCEPT !.playing = SetPlaying(play)]

\* MainWindow.reset_view
ResetView(x) == ApplyParamsFromInit([WorldStop(x) EXCEPT !.playing = SetPlaying(FALSE)])

\* the callback bound to the control `key`, run once the controls hold cs :
\* on_a_changed and on_params_changed_keep_phase read the orbit from the
\* controls with the relative canvas's start_nu and keep the phase;
\* on_mass_changed reads the masses
OnControlChanged(x, key) ==
    Only({IF key \in OrbitKeys
          THEN WorldApplyParameters(
                   v, ReadOrbitParams(v.controls, v.relative.orbit.start_nu), TRUE)
          ELSE WorldApplyMasses(v, ReadMasses(v.controls)) : v \in {x}})

\* values typed into the spin boxes
WindowEdits ==
    {<<"a", 2000>>, <<"e", 200>>, <<"i", 135000>>, <<"m2", 50>>}

\* the check boxes clicked in the window
WindowOptions == {"show_omega"}

\* MainWindow()
InitWindow ==
    \E x \in {NewWindow} :
        /\ orbit = x.relative.orbit
        /\ mass = x.relative.mass
        /\ nu = x.relative.nu
        /\ M = x.relative.M
        /\ timerActive = x.relative.timerActive
        /\ speedScale = x.relative.speedScale
        /\ dM = x.relative.dM
        /\ absolute = x.absolute
        /\ ready = TRUE
        /\ ticks = 0
        /\ edits = 0
        /\ last = [op |-> "MainWindow", keep |-> FALSE, arg |-> NoArg, was |-> FALSE]
        /\ calls = <<>>
        /\ listeners = CanvasListeners
        /\ receiver = NoArg
        /\ result = NoArg
        /\ window = [playing |-> x.playing, controls |-> x.controls,
                     options |-> x.options, abs_axes_lock_L |-> x.abs_axes_lock_L]
        /\ view = x.views

\* what an operation of the window leaves alone
WindowFrame == UNCHANGED <<speedScale, ready, ticks, listeners, receiver, result>>

\* the user clicks the play button : _on_play_clicked emits playToggled(not
\* _playing), which runs _on_play_toggled
PlayClicked ==
    /\ Install(OnPlayToggled(World, ~window.playing))
    /\ last' = [op |-> "play_clicked", keep |-> ~window.playing, arg |-> NoArg,
                was |-> timerActive]
    /\ calls' = <<>>
    /\ UNCHANGED edits
    /\ WindowFrame

\* the user clicks the reset button : resetClicked runs reset_view
ResetClicked ==
    /\ Install(ResetView(World))
    /\ last' = [op |-> "reset_view", keep |-> FALSE,
                arg |-> [nu |-> nu, abs_nu |-> absolute.nu, orbit |-> orbit],
                was |-> timerActive]
    /\ calls' = <<>>
    /\ UNCHANGED edits
    /\ WindowFrame

\* the user types a value into the spin box of a control : the slider follows
\* and the bound callback runs
ControlEdited ==
    \E ed \in WindowEdits :
        LET key == ed[1]
            c == WindowControls[key]
        IN  /\ SpinBound(c, ed[2]) # window.controls[key].spin
            /\ edits < MaxEdits
            /\ edits' = edits + 1
            /\ \E ctl \in {SpinSetValue(Fresh(window.controls[key]), c, ed[2],
                                         MaxCascade)} :
                   \E x \in {[World EXCEPT !.controls[key] = Fresh(ctl)]} :
                       Install(IF ctl.callbacks > 0 THEN OnControlChanged(x, key)
                               ELSE x)
            /\ last' = [op |-> "control_edited", keep |-> TRUE,
                        arg |-> [key |-> key, v |-> ed[2]], was |-> timerActive]
            /\ calls' = <<>>
            /\ WindowFrame

\* the user clicks a check box : toggled runs set_state, whose adapter call
\* reaches the canvases
OptionClicked ==
    \E key \in WindowOptions :
        LET value == ~window.options.boxes[key]
            box == [window.options EXCEPT !.log = <<>>, !.boxes[key] = value]
        IN  /\ edits < MaxEdits
            /\ edits' = edits + 1
            /\ Install(WorldApplyOptions(
                   World, Toggled(box, key, value, window.options.connections)))
            /\ last' = [op |-> "option_clicked", keep |-> value, arg |-> [key |-> key],
                        was |-> timerActive]
            /\ calls' = <<>>
            /\ WindowFrame

NextWindow ==
    \/ PlayClicked
    \/ ResetClicked
    \/ ControlEdited
    \/ OptionClicked
    \/ TickRelative
    \/ TickAbsolute

SpecWindow == InitWindow /\ [][NextWindow]_vars

-----------------------------------------------------------------------------
(* Properties of the canvas and its animator *)

Tol == 40   \* anomalies agree when they differ by at most Tol units of 1e-4 rad

ApplyOps == {"apply_parameters", "a", "e", "i", "w", "Om", "start_nu"}
MassOps == {"apply_masses", "m1", "m2"}

\* C1: the animator starts stopped; start() leaves it running and stop() leaves
\* it stopped whatever the state before (so a repeated start() or stop() changes
\* nothing), and no other operation touches the timer: the state is always the
\* one the last start()/stop() call asked for.
C1_StartStop ==
    /\ (last.op \in {"OrbitAnimator", "init"} => ~timerActive)
    /\ (last.op = "start" => timerActive)
    /\ (last.op = "stop" => ~timerActive)
    /\ (last.op \notin {"start", "stop"} => timerActive = last.was)

\* start() was called while the animator was already running
C1_Witness == last.op = "start" /\ last.was /\ timerActive

C3_KeepPhase ==
    [][last'.op \in ApplyOps =>
          /\ (last'.keep => nu' = nu)
          /\ (~last'.keep => nu' = orbit'.start_nu)
          /\ (last'.op = "apply_parameters" =>
                 orbit'.e = Min(Max(last'.arg.e, 0), EMax))
          /\ (last'.op = "e" => orbit'.e = Min(Max(last'.arg.v, 0), EMax))
          /\ M' = E_from_nu(nu', orbit'.e) - MulR(E4(orbit'.e), Sin(E_from_nu(nu', orbit'.e)))
      ]_vars

\* a keep-phase apply_parameters changed e under a nu that ticks had moved
C3_Witness ==
    /\ last.op = "apply_parameters"
    /\ last.keep
    /\ ticks > 0
    /\ nu # orbit.start_nu
    /\ orbit.e = 9 * (EOne \div 10)

\* C4: a tick replaces M by M + dM when i < pi/2 and by M - dM otherwise,
\* exactly 90 degrees included.
C4_TickDirection ==
    [][last'.op = "tick" =>
          M' = M + (IF orbit.i < HalfPi THEN dM ELSE -dM)]_vars

\* a tick at an inclination of exactly 90 degrees moved M backwards
C4_Witness == last.op = "tick" /\ orbit.i = Deg(90) /\ dM > 0 /\ ticks = 1 /\ edits = 1

\* C5: a tick happens only while the timer is active; it calls the M increment,
\* _recompute_from_M, _update_body_only and _redraw once each in that order, nu
\* being recomputed from the incremented M; it changes neither the orbit, the
\* masses nor dM, and leaves the timer running.
C5_TickOnlyRunning ==
    [][last'.op = "tick" =>
          /\ timerActive
          /\ timerActive'
          /\ calls' = <<"M+=", "_recompute_from_M", "_update_body_only", "_redraw">>
          /\ nu' = nu_from_E(solve_kepler(M', orbit.e), orbit.e)
          /\ orbit' = orbit
          /\ mass' = mass
          /\ dM' = dM
      ]_vars

\* a second tick, after the animator was started
C5_Witness == last.op = "tick" /\ ticks = 2 /\ timerActive /\ M # Deg(0)

\* C6: once the canvas is constructed, dM is mean_motion(a) times the timer
\* interval in seconds times the speed scale, for the stored a, masses and scale.
C6_MeanMotionIncrement ==
    ready => dM = DivR(MeanMotion(mass, orbit.a) * IntervalMs * speedScale, 100)

\* C6 as stated: the same from the construction of the animator onward
C6_FromAnimatorConstruction ==
    dM = DivR(MeanMotion(mass, orbit.a) * IntervalMs * speedScale, 100)

\* a was edited under a speed scale other than 1: dM follows both
C6_Witness ==
    /\ last.op = "a"
    /\ orbit.a = One \div 2
    /\ speedScale = 40
    /\ dM # InitialDM
    /\ dM > 0

C8_EditsKeepRunning ==
    [][/\ (last'.op \in ApplyOps \cup MassOps => timerActive' = timerActive)
       /\ (last.op \in ApplyOps \cup MassOps /\ last'.op = "tick" =>
              /\ timerActive
              /\ M' = M + DirSign(orbit.i) * dM)
      ]_vars

\* an edit arrived between ticks while the animator was running
C8_Witness ==
    /\ last.op \in {"apply_parameters", "apply_masses"}
    /\ last.was
    /\ timerActive
    /\ ticks > 0
    /\ ticks < MaxTicks

-----------------------------------------------------------------------------
(* Properties of OrbitModel and ensure_valid *)

\* the corrected copy of an orbit record: a floored at 1e-9, e clamped to
\* [0, 0.999999], the four angles as given
ClampedOrbit(p) ==
    [a |-> IF p.a < 1 THEN 1 ELSE p.a,
     e |-> IF p.e < 0 THEN 0 ELSE IF p.e > 999999 THEN 999999 ELSE p.e,
     i |-> p.i, w |-> p.w, Om |-> p.Om, start_nu |-> p.start_nu]

\* the corrected copy of a mass record: both masses floored at 1e-9
ClampedMass(m) ==
    [m1 |-> IF m.m1 < 1 THEN 1 ELSE m.m1, m2 |-> IF m.m2 < 1 THEN 1 ELSE m.m2]

C10_EnsureValid ==
    /\ (last.op = "OrbitModel" =>
           /\ orbit = ClampedOrbit(last.arg.orbit)
           /\ mass = ClampedMass(last.arg.mass))
    /\ [][/\ (last'.op = "set_orbit" => orbit' = ClampedOrbit(last'.arg))
          /\ (last'.op = "set_masses" => mass' = ClampedMass(last'.arg))
          /\ (last'.op = "update_orbit" =>
                 orbit' = ClampedOrbit(Replace(orbit, last'.arg)))
          /\ (last'.op = "update_masses" =>
                 mass' = ClampedMass(Replace(mass, last'.arg)))
          /\ OrbitEnsureValid(orbit') = orbit'
          /\ MassEnsureValid(mass') = mass'
         ]_vars

\* set_orbit was given an out-of-range a and e with angles outside [0, 2 pi):
\* a and e were corrected and the angles kept as given
C10_Witness ==
    /\ last.op = "set_orbit"
    /\ last.arg.a = -2 * One
    /\ last.arg.e = EOne
    /\ orbit.a = 1
    /\ orbit.e = 999999
    /\ orbit.i = Deg(400)
    /\ orbit.start_nu = Deg(-30)

\* the corrected value of one field: a and the masses floored at 1e-9, e clamped
\* to [0, 0.999999], an angle as given
ClampedField(f, v) ==
    IF f \in {"a", "m1", "m2"} THEN (IF v < 1 THEN 1 ELSE v)
    ELSE IF f = "e" THEN (IF v < 0 THEN 0 ELSE IF v > 999999 THEN 999999 ELSE v)
    ELSE v

\* C11: update_orbit / update_masses (with_updates on the stored value) replace
\* exactly the named fields, by the corrected value given, keep every other
\* field of the stored value, and leave the fields of the receiver as they were.
C11_WithUpdates ==
    [][/\ (last'.op = "update_orbit" =>
              /\ \A f \in OrbitFields :
                    orbit'[f] = IF f \in DOMAIN last'.arg
                                THEN ClampedField(f, last'.arg[f]) ELSE orbit[f]
              /\ receiver' = orbit
              /\ mass' = mass)
       /\ (last'.op = "update_masses" =>
              /\ \A f \in MassFields :
                    mass'[f] = IF f \in DOMAIN last'.arg
                               THEN ClampedField(f, last'.arg[f]) ELSE mass[f]
              /\ receiver' = mass
              /\ orbit' = orbit)
      ]_vars

\* update_orbit(i=...) changed i alone, over an e that an earlier call had clamped;
\* the receiver still has the old i
C11_Witness ==
    /\ last.op = "update_orbit"
    /\ DOMAIN last.arg = {"i"}
    /\ orbit.i = last.arg.i
    /\ orbit.e = 999999
    /\ DOMAIN receiver = OrbitFields
    /\ receiver.i # orbit.i
    /\ receiver.e = orbit.e

-----------------------------------------------------------------------------
(* Properties of OrbitModel's subscribers *)

OrbitChanges == {"set_orbit", "update_orbit"}
MassChanges == {"set_masses", "update_masses"}

\* how many of the entries of the sequence q satisfy: entry = c
Count(q, c) == Cardinality({k \in 1..Len(q) : q[k] = c})

\* the callbacks of a call log, in order
CallbacksOf(log) == [k \in 1..Len(log) |-> log[k].cb]

\* C12: set_orbit / update_orbit run the callbacks registered for "orbit" and
\* no other, each once per registration, handing each the value just stored,
\* which is valid, and leave the stored masses alone; set_masses /
\* update_masses do the same for "mass" and leave the stored orbit alone.
C12_TopicOnly ==
    [][/\ (last'.op \in OrbitChanges =>
              /\ \A c \in Callbacks :
                    Count(CallbacksOf(calls'), c) = Count(listeners.orbit, c)
              /\ \A k \in 1..Len(calls') : calls'[k].value = orbit'
              /\ orbit' = ClampedOrbit(orbit')
              /\ mass' = mass)
       /\ (last'.op \in MassChanges =>
              /\ \A c \in Callbacks :
                    Count(CallbacksOf(calls'), c) = Count(listeners.mass, c)
              /\ \A k \in 1..Len(calls') : calls'[k].value = mass'
              /\ mass' = ClampedMass(mass')
              /\ orbit' = orbit)
      ]_vars

\* an orbit change with f registered for "orbit" and g for "mass" only: f ran, g did not
C12_Witness ==
    /\ last.op = "update_orbit"
    /\ listeners.orbit = <<"f">>
    /\ listeners.mass = <<"g">>
    /\ Len(calls) = 1
    /\ calls[1].cb = "f"
    /\ calls[1].value = orbit
    /\ orbit.e = 999999

\* C13: every change of a topic runs that topic's callbacks, within the call, in
\* the order in which they were registered.
C13_RegistrationOrder ==
    [][/\ (last'.op \in OrbitChanges => CallbacksOf(calls') = listeners.orbit)
       /\ (last'.op \in MassChanges => CallbacksOf(calls') = listeners.mass)
       /\ (last'.op = "subscribe" =>
              /\ listeners'[last'.arg.topic] =
                     Append(listeners[last'.arg.topic], last'.arg.cb)
              /\ \A t \in Topics \ {last'.arg.topic} : listeners'[t] = listeners[t]
              /\ calls' = <<>>)
      ]_vars

\* a mass change with g registered before f, and f registered twice: g, f, f
C13_Witness ==
    /\ last.op \in MassChanges
    /\ listeners.mass = <<"g", "f", "f">>
    /\ CallbacksOf(calls) = <<"g", "f", "f">>

-----------------------------------------------------------------------------
(* Properties of the node markers and the barycentric split *)

\* C14 as stated: the relative canvas puts the ascending-node marker at
\* (-w) mod 2pi when i < pi/2 and at w mod 2pi when i >= pi/2, and the
\* descending-node marker half a turn further.
C14_NodeByInclination ==
    last.op = "relative_update_periastron" =>
        /\ result.asc = (IF orbit.i < HalfPi THEN (-orbit.w) % TwoPi ELSE orbit.w % TwoPi)
        /\ result.des = (result.asc + Pi) % TwoPi

\* C14: the relative canvas puts the ascending-node marker at (-w) mod 2pi
\* whatever the inclination, and the descending-node marker half a turn
\* further; the choice between (-w) mod 2pi (i < pi/2) and w mod 2pi
\* (i >= pi/2) is made for the start of the omega arc only.
C14_NodeMarkers ==
    /\ (last.op = "relative_update_periastron" =>
           /\ result.asc = (-orbit.w) % TwoPi
           /\ result.des = (result.asc + Pi) % TwoPi)
    /\ (last.op = "update_w_arc" =>
           result.first = (IF orbit.i < HalfPi THEN (-orbit.w) % TwoPi
                                               ELSE orbit.w % TwoPi))

\* markers drawn for a retrograde orbit with w = 400 degrees: ascending node at
\* 320 degrees, descending node at 140 degrees
C14_Witness ==
    /\ last.op = "relative_update_periastron"
    /\ orbit.i = Deg(135)
    /\ orbit.w = Deg(400)
    /\ result.asc = TwoPi - (Deg(400) - TwoPi)
    /\ result.des = result.asc - Pi
    /\ result.asc # orbit.w % TwoPi

\* the factor f (units of 1e-4) is the quotient num / den rounded to nearest
IsQuotient(f, num, den) == 2 * Abs(f * den - num * S) <= den

\* C15: the absolute canvas takes both node markers from one body, body 1 when
\* m2 >= m1 and body 2 otherwise, which is the body with the larger |c_k|
\* (body 1 on a tie), where c1 = -m2/(m1+m2) and c2 = m1/(m1+m2); the markers
\* are c_k times the relative position at the two node anomalies.
C15_DominantBody ==
    last.op = "absolute_update_periastron" =>
        LET m1 == ToMilli(mass.m1)
            m2 == ToMilli(mass.m2)
        IN  /\ result.body = (IF mass.m2 >= mass.m1 THEN 1 ELSE 2)
            /\ result.body = 1 => /\ IsQuotient(result.c, -m2, m1 + m2)
                                  /\ 2 * Abs(result.c) >= S
            /\ result.body = 2 => /\ IsQuotient(result.c, m1, m1 + m2)
                                  /\ 2 * Abs(result.c) > S
            /\ result.asc = (-orbit.w) % TwoPi
            /\ result.des = (result.asc + Pi) % TwoPi

\* equal masses: the factors tie at 0.5 and the markers follow body 1
C15_Witness ==
    /\ last.op = "absolute_update_periastron"
    /\ mass.m1 = One
    /\ mass.m2 = One
    /\ result.body = 1
    /\ result.c = -(S \div 2)

\* C16: barycentric_factors() returns (-m2/(m1+m2), m1/(m1+m2)) for valid
\* masses, (-0.5, +0.5) for equal masses and (-1/3, +2/3) for m1 = 2, m2 = 1,
\* and the absolute canvas splits the relative curve with the same pair.
C16_BarycentricFactors ==
    last.op = "update_orbit_curves" =>
        LET m1 == ToMilli(mass.m1)
            m2 == ToMilli(mass.m2)
            f == result.factors
        IN  /\ IsQuotient(f.c1, -m2, m1 + m2)
            /\ IsQuotient(f.c2, m1, m1 + m2)
            /\ f.c1 < 0
            /\ f.c2 > 0
            /\ f.c2 - f.c1 = S
            /\ mass.m1 = mass.m2 => f = [c1 |-> -(S \div 2), c2 |-> S \div 2]
            /\ (mass.m1 = 2 * One /\ mass.m2 = One) =>
                   f = [c1 |-> -DivR(S, 3), c2 |-> DivR(2 * S, 3)]
            /\ result.split = f

\* m1 = 2, m2 = 1: both the method and the canvas give (-0.3333, +0.6667)
C16_Witness ==
    /\ last.op = "update_orbit_curves"
    /\ mass = [m1 |-> 2 * One, m2 |-> One]
    /\ result.factors = [c1 |-> -3333, c2 |-> 6667]
    /\ result.split = result.factors

-----------------------------------------------------------------------------
(* Properties of the Kepler transforms *)

\* C17: solve_kepler returns after at least one and at most max_iter (40)
\* Newton iterations; it returns after the first iteration whose step is below
\* tol in absolute value (every earlier step is at least tol, and a run that
\* ends before max_iter ends on a step below tol); for e = 0 it returns E = M
\* after a single iteration.
C17_SolveKeplerTerminates ==
    last.op = "solve_kepler" =>
        /\ result.iters = Len(result.steps)
        /\ result.iters >= 1
        /\ result.iters <= KeplerMaxIter
        /\ \A k \in 1..(result.iters - 1) : Abs(result.steps[k]) >= KeplerTol
        /\ result.iters < KeplerMaxIter => Abs(result.steps[result.iters]) < KeplerTol
        /\ orbit.e = 0 => (result.E = M /\ result.iters = 1)

\* a solve at e = 0.9 that takes several iterations and stops on a small step
C17_Witness ==
    /\ last.op = "solve_kepler"
    /\ orbit.e = 9 * (EOne \div 10)
    /\ result.iters > 2
    /\ result.iters < KeplerMaxIter
    /\ Abs(result.steps[1]) >= KeplerTol
    /\ Abs(result.steps[result.iters]) < KeplerTol

\* C18: phase continuity.  _recompute_from_M run right after
\* _set_nu_keep_phase(nu0) gives back nu0, whatever nu0 and the eccentricity.
C18_PhaseContinuity ==
    (last.op = "recompute_from_M" /\ last.arg.after = "set_nu_keep_phase") =>
        Abs(nu - last.arg.v) <= Tol

-----------------------------------------------------------------------------
(* Properties of CanvasManager *)

\* the entries of the call log q that went to the canvas `name`
CallsTo(q, name) == {k \in 1..Len(q) : q[k].canvas = name}

\* C20: under CanvasManager the relative and the absolute canvas always hold
\* equal orbit parameters and equal masses, each in its own model; after
\* apply_parameters both hold the validated parameters of that call and
\* after apply_masses the validated masses of that call, and every such call
\* reaches each canvas once, with the same argument and the same keep_phase.
C20_CanvasesAgree ==
    /\ orbit = absolute.orbit
    /\ mass = absolute.mass
    /\ (last.op = "manager.apply_parameters" =>
           /\ orbit = ClampedOrbit(last.arg)
           /\ absolute.orbit = ClampedOrbit(last.arg))
    /\ (last.op = "manager.apply_masses" =>
           /\ mass = ClampedMass(last.arg)
           /\ absolute.mass = ClampedMass(last.arg))
    /\ (last.op \in {"manager.apply_parameters", "manager.apply_masses"} =>
           /\ Len(calls) = 2
           /\ Cardinality(CallsTo(calls, "relative")) = 1
           /\ Cardinality(CallsTo(calls, "absolute")) = 1
           /\ \A k \in 1..Len(calls) :
                  calls[k].keep = last.keep /\ calls[k].arg = last.arg)

\* a keep-phase apply_parameters with e = -0.2 after the two canvases have drifted
\* apart in phase: both store e = 0, each keeps its own nu
C20_Witness ==
    /\ last.op = "manager.apply_parameters"
    /\ last.keep
    /\ last.arg.e < 0
    /\ orbit.e = 0
    /\ absolute.orbit = orbit
    /\ nu # absolute.nu

-----------------------------------------------------------------------------
(* Properties of what a canvas shows *)

\* C22: whenever the axes are not locked, after a parameter edit that changes a
\* or e the view half-width _L equals a * (1 + e) of the new parameters.
C22_ViewFollowsExtent ==
    [][(/\ last'.op = "apply_parameters"
        /\ ~view'.lock_axes_limits
        /\ (orbit'.a # orbit.a \/ orbit'.e # orbit.e))
       => view'.L = ExtentL(orbit')]_vars

\* C26: a "Sky Plane" label patch exists on the canvas only while both the
\* sky-plane flag and the sky-label flag are true, whatever sequence of toggles,
\* parameter edits and axes-limit refreshes came before.
C26_SkyLabelNeedsBoth ==
    view.sky_label_patch => (view.show_sky_plane /\ view.show_sky_label)

\* C27: on the absolute canvas, as on the relative one, set_bodies_visible(v)
\* and set_centers_visible(v) give the markers the canvas displays (body1 and
\* body2, the barycenter markers) the visibility v.
C27_DisplayedMarkersFollow ==
    /\ last.op = "set_bodies_visible"
          => \A x \in BodyMarkers(view.kind) : view.visible[x] = last.keep
    /\ last.op = "set_centers_visible"
          => \A x \in CenterMarkers(view.kind) : view.visible[x] = last.keep

\* C28: while the omega flag is off (after set_omega_visible(False), across
\* parameter edits, ticks and update_all, until set_omega_visible(True)) the
\* argument-of-periastron arc is not drawn, on a relative canvas as on an
\* absolute one.
C28_OmegaArcHidden == ~view.show_omega => view.w_arc = NoArc

\* C29: apply_masses and the m1 / m2 setters leave nu, M and every orbit
\* parameter as they were (and the timer and the speed scale too); only the
\* stored masses and dM change.
C29_MassEditKeepsPhase ==
    [][last'.op \in {"apply_masses", "m1", "m2"}
       => /\ nu' = nu
          /\ M' = M
          /\ orbit' = orbit
          /\ timerActive' = timerActive
          /\ speedScale' = speedScale
          /\ dM' = RecomputeMeanMotion(speedScale, mass', orbit.a)]_vars

\* a mass edit made while the body is away from its start (it has ticked) that
\* changes the masses and the increment
C29_Witness ==
    /\ last.op \in {"apply_masses", "m1"}
    /\ ticks > 0
    /\ nu # orbit.start_nu
    /\ mass # NewCanvas.mass
    /\ dM # NewCanvas.dM

-----------------------------------------------------------------------------
(* Properties of the option controller and CanvasManager.set_visibility *)

\* C23: set_visibility(key, value) calls the key's handler with value exactly
\* once on the relative and once on the absolute canvas for a key bound to both,
\* exactly once on the absolute canvas and never on the relative one for
\* show_peri_link, and calls nothing for an unknown key.
C23_SetVisibilityDispatch ==
    last.op = "set_visibility" =>
        LET key == last.arg.key
            onRelative == Cardinality(CallsTo(calls, "relative"))
            onAbsolute == Cardinality(CallsTo(calls, "absolute"))
        IN  /\ key \notin Range(OptionSpecs) => calls = <<>>
            /\ key = "show_peri_link" => onRelative = 0 /\ onAbsolute = 1
            /\ key \in Range(OptionSpecs) \ {"show_peri_link"} =>
                   onRelative = 1 /\ onAbsolute = 1
            /\ \A k \in DOMAIN calls :
                   /\ calls[k].value = last.keep
                   /\ calls[k].handler = VisibilityBindings[key].handler

\* set_visibility("show_peri_link", False) has switched the link off on the
\* absolute canvas and left the relative canvas alone
C23_Witness ==
    /\ last.op = "set_visibility"
    /\ last.arg.key = "show_peri_link"
    /\ ~last.keep
    /\ ~view.absolute.flags["_show_peri_link"]
    /\ view.relative.flags["_show_peri_link"]
    /\ Len(calls) = 1

\* C24: while an adapter is attached, the last value it was given for each key
\* is the controller's stored state; attach_adapter gives it the current value
\* of every option once; set_state(key, v) stores v and calls
\* adapter.apply(key, v) once and for no other key (a check-box toggle does so
\* once per registration of the box); register_checkboxes sets the boxes from
\* the state and calls nothing on the adapter.
C24_AdapterInStep ==
    LET key == last.arg.key
        entry == [key |-> key, value |-> last.keep]
    IN  /\ window.adapter =>
               \A k \in Range(window.keys) : window.applied[k] = window.checked[k]
        /\ last.op = "attach_adapter" =>
               /\ window.adapter
               /\ \A k \in Range(window.keys) :
                      /\ Cardinality({n \in DOMAIN window.log : window.log[n].key = k}) = 1
                      /\ \A n \in DOMAIN window.log :
                             window.log[n].key = k => window.log[n].value = window.checked[k]
               /\ Len(window.log) = Len(window.keys)
        /\ last.op = "set_state" =>
               /\ window.checked[key] = last.keep
               /\ window.log = IF window.adapter THEN <<entry>> ELSE <<>>
        /\ last.op = "toggled" =>
               /\ window.connections > 0 => window.checked[key] = last.keep
               /\ \A n \in DOMAIN window.log : window.log[n] = entry
               /\ Len(window.log) = IF window.adapter THEN window.connections ELSE 0
        /\ last.op = "register_checkboxes" =>
               /\ window.log = <<>>
               /\ calls = <<>>
               /\ \A k \in DOMAIN window.boxes : window.boxes[k] = window.checked[k]

\* a registered box was unchecked by the user with the adapter attached : the
\* adapter got that one call, and it reached both canvases
C24_Witness ==
    /\ last.op = "toggled"
    /\ window.adapter
    /\ window.connections = 1
    /\ window.log = <<[key |-> "show_omega", value |-> FALSE]>>
    /\ ~window.checked["show_omega"]
    /\ window.applied["show_omega"] = FALSE
    /\ Len(calls) = 2

-----------------------------------------------------------------------------
(* Properties of the parameter controls *)

\* C25 as stated: set_value(key, v) sets the spin box to v and the slider to
\* round((v - minimum) / step) and invokes no callback.
C25_SetValueExact ==
    last.op = "set_value" =>
        LET w == window[last.arg.key]
            c == Controls[last.arg.key]
        IN  /\ w.spin = last.arg.v
            /\ w.slider = SliderFromValue(c, last.arg.v)
            /\ w.callbacks = 0

\* C25, amended: set_value(key, v) sets the spin box to v rounded to its
\* decimals and kept within its range, and the slider to round((v - minimum) /
\* step) kept within its range, emitting no signal and invoking no callback;
\* on a bound control a user change of the slider brings the spin box to
\* minimum + slider * step (within its range) and invokes the callback when
\* that changes the spin box's value, a user change of the spin box brings the
\* slider to round((spin - minimum) / step) (within its range) and invokes the
\* callback, and the feedback stops after at most three emissions.
C25_ControlsInStep ==
    LET w == window[last.arg.key]
        c == Controls[last.arg.key]
        rounded(x) == ((2 * x + c.quantum) \div (2 * c.quantum)) * c.quantum
        inSpin(x) == IF x < c.spin_min THEN c.spin_min
                     ELSE IF x > c.spin_max THEN c.spin_max ELSE x
        inSlider(s) == IF s < 0 THEN 0 ELSE IF s > c.slider_max THEN c.slider_max ELSE s
        nearest(x) == (2 * (x - c.minimum) + c.step) \div (2 * c.step)
        tie(x) == (2 * (x - c.minimum) + c.step) % (2 * c.step) = 0
        position(x) == IF tie(x) /\ nearest(x) % 2 = 1 THEN nearest(x) - 1
                       ELSE nearest(x)
    IN  /\ last.op = "set_value" =>
               /\ w.spin = inSpin(rounded(last.arg.v))
               /\ w.slider = inSlider(position(last.arg.v))
               /\ w.callbacks = 0
               /\ w.emissions = 0
        /\ last.op = "user_slider" =>
               /\ w.slider = inSlider(last.arg.v)
               /\ w.spin = inSpin(c.minimum + w.slider * c.step)
               /\ last.was => w.callbacks >= 1
        /\ last.op = "user_spin" =>
               /\ w.slider = inSlider(position(w.spin))
               /\ w.callbacks >= 1
        /\ last.op \in {"set_value", "user_slider", "user_spin"} =>
               /\ ~w.unsettled
               /\ w.emissions <= 3

\* set_value with a value beyond the range of a bound control : both widgets
\* stop at the range's end and no callback ran ; and a value typed off the
\* slider's grid, which the feedback moved onto it with two callback runs
C25_Witness ==
    \/ /\ last.op = "set_value"
       /\ last.keep
       /\ last.arg = [key |-> "e", v |-> 1500]
       /\ window.e.spin = 950
       /\ window.e.slider = 95
       /\ window.e.callbacks = 0
    \/ /\ last.op = "user_spin"
       /\ last.keep
       /\ last.arg = [key |-> "p", v |-> 3200]
       /\ window.p.spin = 3000
       /\ window.p.slider = 4
       /\ window.p.callbacks = 2
    \/ /\ last.op = "user_slider"
       /\ last.was
       /\ last.arg = [key |-> "e", v |-> 37]
       /\ window.e.spin = 370
       /\ window.e.callbacks = 1

-----------------------------------------------------------------------------
(* Properties of the main window *)

\* the defaults of the canvas constructor: a = 1.0, e = 0.5, i = 45 deg,
\* w = 90 deg, Om = 90 deg, start_nu = 45 deg, m1 = 1.6, m2 = 0.8
DefaultOrbit ==
    [a |-> 1000 * Milli, e |-> 500000, i |-> 7854, w |-> 15708, Om |-> 15708,
     start_nu |-> 7854]
DefaultMass == [m1 |-> 1600 * Milli, m2 |-> 800 * Milli]

\* C21: right after reset_view, whatever the state it was clicked in, the
\* animators of both canvases are stopped, the play strip shows not playing,
\* both canvases hold the defaults a=1.0, e=0.5, i=45 deg, w=90 deg, Om=90 deg,
\* m1=1.6, m2=0.8, and nu of each is start_nu = 45 deg with M derived from it.
C21_ResetRestoresDefaults ==
    last.op = "reset_view" =>
        /\ ~timerActive
        /\ ~absolute.timerActive
        /\ ~window.playing
        /\ orbit = DefaultOrbit
        /\ absolute.orbit = DefaultOrbit
        /\ mass = DefaultMass
        /\ absolute.mass = DefaultMass
        /\ nu = DefaultOrbit.start_nu
        /\ absolute.nu = DefaultOrbit.start_nu
        /\ M = M_from_E(E_from_nu(nu, orbit.e), orbit.e)
        /\ absolute.M = M

\* reset_view clicked while the animation runs, after an edit of the orbit and
\* with the two canvases at different phases away from the start
C21_Witness ==
    /\ last.op = "reset_view"
    /\ last.was
    /\ last.arg.orbit # DefaultOrbit
    /\ last.arg.nu # DefaultOrbit.start_nu
    /\ last.arg.abs_nu # last.arg.nu
    /\ nu = DefaultOrbit.start_nu
    /\ ~window.playing

\* C30: after any sequence of play / pause clicks and resets the play strip's
\* flag equals the running state of the animators, and the animators of the
\* relative and the absolute canvas are both running or both stopped.
C30_PlayFlagMatches ==
    /\ window.playing = timerActive
    /\ timerActive = absolute.timerActive

\* the animation was paused by a click, or stopped by a reset, while it ran
C30_Witness ==
    /\ last.op \in {"play_clicked", "reset_view"}
    /\ last.was
    /\ ~window.playing
    /\ ~timerActive
    /\ ticks > 0

====
